---- MODULE Spec2Model ----
(***************************************************************************)
(* A model of the Avature job scraper: the crawler's request handler with  *)
(* its two-tier error classifier and evidence recorder (src/main.ts), the  *)
(* listing / job-detail / default route handlers and the field extractor   *)
(* (src/routes/*.ts).  Strings are TLA+ strings handled character by       *)
(* character (Len, SubSeq and \o), so that trimming, lower-casing, regular *)
(* expression matching and URL resolution are computed as the code         *)
(* computes them.                                                          *)
(***************************************************************************)
EXTENDS Integers, Sequences, FiniteSets, TLC

VARIABLES
    queue,            \* requests waiting in the crawler's request queue
    seen,             \* URLs the request queue has ever accepted (its unique keys)
    finished,         \* number of requests the crawler has finished (handled or failed)
    dataset,          \* records pushed with Dataset.pushData, in order
    store,            \* the evidence directory: file name -> file content
    clock,            \* the wall clock read by new Date()
    saveErrorSamples, \* run input: whether error samples are written
    runState,         \* "running" until crawler.run() resolves
    last,             \* what the most recent engine callback did (history)
    hist,             \* per URL: failed attempts, handler returns, evidence written (history)
    arg,              \* input of the pure function under study
    res               \* its result

vars == <<queue, seen, finished, dataset, store, clock, saveErrorSamples,
          runState, last, hist, arg, res>>

NULL == "<null>"

(***************************************************************************)
(* String primitives of the JavaScript runtime.                            *)
(***************************************************************************)
Min(a, b) == IF a < b THEN a ELSE b
Max(a, b) == IF a > b THEN a ELSE b

Char(s, i) == SubSeq(s, i, i)

\* the least and the greatest element of a non-empty set of numbers
MinOf(S) == CHOOSE i \in S : \A j \in S : i <= j
MaxOf(S) == CHOOSE i \in S : \A j \in S : i >= j

UpperAlphabet == "ABCDEFGHIJKLMNOPQRSTUVWXYZ"
LowerAlphabet == "abcdefghijklmnopqrstuvwxyz"
Digits == "0123456789"

UpperLetters == {Char(UpperAlphabet, i) : i \in 1..26}
LowerLetters == {Char(LowerAlphabet, i) : i \in 1..26}
DigitChars == {Char(Digits, i) : i \in 1..10}
LowerOf == [c \in UpperLetters |->
               Char(LowerAlphabet, CHOOSE i \in 1..26 : Char(UpperAlphabet, i) = c)]

IsUpper(c) == c \in UpperLetters
IsLetter(c) == c \in UpperLetters \/ c \in LowerLetters
IsDigit(c) == c \in DigitChars
\* \s of a JavaScript regular expression, and the characters trim() removes
IsSpace(c) == c \in {" ", "\t", "\n", "\r"}

LowerChar(c) == IF IsUpper(c) THEN LowerOf[c] ELSE c

\* String.prototype.toLowerCase
RECURSIVE Lower(_)
Lower(s) ==
    IF \A i \in 1..Len(s) : ~IsUpper(Char(s, i)) THEN s
    ELSE IF Len(s) = 1 THEN LowerChar(s)
    ELSE Lower(SubSeq(s, 1, Len(s) \div 2)) \o Lower(SubSeq(s, Len(s) \div 2 + 1, Len(s)))

\* String.prototype.trim
Span(s, keep) == IF keep = {} THEN "" ELSE SubSeq(s, MinOf(keep), MaxOf(keep))
Trim(s) == Span(s, {i \in 1..Len(s) : ~IsSpace(Char(s, i))})

\* String.prototype.substring(0, n)
Substring0(s, n) == SubSeq(s, 1, Min(n, Len(s)))

\* s.substring(from - 1): the rest of s starting at the 1-based position from
Rest(s, from) == SubSeq(s, from, Len(s))

StartsWith(s, p) == Len(s) >= Len(p) /\ SubSeq(s, 1, Len(p)) = p
MatchAt(s, i, p) == i >= 1 /\ i + Len(p) - 1 <= Len(s) /\ SubSeq(s, i, i + Len(p) - 1) = p

\* String.prototype.indexOf, 1-based; 0 when p does not occur at or after from
FirstOrElse(hits, none) == IF hits = {} THEN none ELSE MinOf(hits)
IndexOfFrom(s, p, from) ==
    FirstOrElse({i \in from..(Len(s) - Len(p) + 1) : MatchAt(s, i, p)}, 0)

IndexOf(s, p) == IndexOfFrom(s, p, 1)

\* String.prototype.includes
Includes(s, p) == p = "" \/ IndexOf(s, p) # 0

\* first position at or after i that holds no white space (Len(s) + 1 at the end)
RECURSIVE SkipSpace(_, _)
SkipSpace(s, i) ==
    IF i <= Len(s) /\ IsSpace(Char(s, i)) THEN SkipSpace(s, i + 1) ELSE i

(***************************************************************************)
(* Regular expressions of the form  w1\s*w2\s*...\s*wn  (all the error     *)
(* signatures have this form once their alternations are expanded).        *)
(* WordsEndAt gives the position after the match that starts at i, or 0.   *)
(***************************************************************************)
RECURSIVE WordsEndAt(_, _, _)
WordsEndAt(s, i, words) ==
    IF words = <<>> THEN i
    ELSE IF ~MatchAt(s, i, Head(words)) THEN 0
    ELSE IF Len(words) = 1 THEN i + Len(Head(words))
    ELSE WordsEndAt(s, SkipSpace(s, i + Len(Head(words))), Tail(words))

\* RegExp.prototype.test for such an expression, not anchored
ScanFor(s, first, rest) ==
    \E i \in 1..(Len(s) - Len(first) + 1) :
        /\ SubSeq(s, i, i + Len(first) - 1) = first
        /\ (rest = <<>> \/ WordsEndAt(s, SkipSpace(s, i + Len(first)), rest) # 0)
TestWords(s, words) == ScanFor(s, Head(words), Tail(words))

(***************************************************************************)
(* The error classifier of the request handler.                            *)
(***************************************************************************)
\* ERROR_PAGE_PATTERNS, in declaration order.  Each pattern is the set of
\* word sequences its regular expression expands to (words are joined by \s*).
ERROR_PAGE_PATTERNS == <<
    [pattern |-> {<<"page", "not", "found">>},          type |-> "PAGE_NOT_FOUND"],
    [pattern |-> {<<"404", "error">>},                  type |-> "PAGE_NOT_FOUND"],
    [pattern |-> {<<"not", "found">>},                  type |-> "PAGE_NOT_FOUND"],
    [pattern |-> {<<"access", "denied">>},              type |-> "ACCESS_DENIED"],
    [pattern |-> {<<"forbidden">>},                     type |-> "ACCESS_DENIED"],
    [pattern |-> {<<"403", "error">>},                  type |-> "ACCESS_DENIED"],
    [pattern |-> {<<"unauthorized">>},                  type |-> "UNAUTHORIZED"],
    [pattern |-> {<<"401", "error">>},                  type |-> "UNAUTHORIZED"],
    [pattern |-> {<<"login", "required">>},             type |-> "AUTH_REQUIRED"],
    [pattern |-> {<<"sign", "in", "required">>},        type |-> "AUTH_REQUIRED"],
    [pattern |-> {<<"authentication", "required">>},    type |-> "AUTH_REQUIRED"],
    [pattern |-> {<<"session", "expired">>},            type |-> "SESSION_EXPIRED"],
    [pattern |-> {<<"internal", "server", "error">>},   type |-> "SERVER_ERROR"],
    [pattern |-> {<<"500", "error">>},                  type |-> "SERVER_ERROR"],
    [pattern |-> {<<"service", "unavailable">>},        type |-> "SERVICE_UNAVAILABLE"],
    [pattern |-> {<<"503", "error">>},                  type |-> "SERVICE_UNAVAILABLE"],
    [pattern |-> {<<"temporarily", "unavailable">>},    type |-> "SERVICE_UNAVAILABLE"],
    [pattern |-> {<<"maintenance">>},                   type |-> "MAINTENANCE"],
    [pattern |-> {<<"under", "construction">>},         type |-> "MAINTENANCE"],
    [pattern |-> {<<"job", w>> : w \in {"closed", "filled", "expired", "removed"}}
                 \cup {<<"job", "has", "been", w>> : w \in {"closed", "filled", "expired", "removed"}},
                                                        type |-> "JOB_CLOSED"],
    [pattern |-> {<<"position", "no", "longer", "available">>, <<"position", "closed">>,
                  <<"position", "filled">>, <<"position", "is", "no", "longer", "available">>,
                  <<"position", "is", "closed">>, <<"position", "is", "filled">>},
                                                        type |-> "JOB_CLOSED"],
    [pattern |-> {<<"this", "posting", w>> : w \in {"closed", "removed"}}
                 \cup {<<"this", "posting", "has", "been", w>> : w \in {"closed", "removed"}},
                                                        type |-> "JOB_CLOSED"],
    [pattern |-> {<<"multiple", "users", "connecting", "from", "your", "ip">>},
                                                        type |-> "PROXY_RATE_LIMITED"],
    [pattern |-> {<<"rate", "limit">>},                 type |-> "RATE_LIMITED"],
    [pattern |-> {<<"too", "many", "requests">>},       type |-> "RATE_LIMITED"]
>>

\* pattern.test(fullText) for entry k of the table (the i flag is moot: the
\* text is lower-cased and the patterns are written in lower case)
PatternTest(k, fullText) ==
    \E words \in ERROR_PAGE_PATTERNS[k].pattern : TestWords(fullText, words)

\* how many characters of $('body').text() the content tier reads
BodyTextLimit == 5000

\* the text the content tier scans: `${pageTitle} ${bodyText}`.toLowerCase()
\* page.title is the content of the <title> element, page.bodyText is $('body').text()
ErrorScanText(page) ==
    Lower(Trim(page.title) \o " " \o Substring0(page.bodyText, BodyTextLimit))

\* the for loop of detectErrorInContent from entry k on
RECURSIVE FirstPatternFrom(_, _)
FirstPatternFrom(k, fullText) ==
    IF k > Len(ERROR_PAGE_PATTERNS) THEN NULL
    ELSE IF PatternTest(k, fullText) THEN ERROR_PAGE_PATTERNS[k].type
    ELSE FirstPatternFrom(k + 1, fullText)

\* a variant of the loop that keeps the last matching entry instead of the first
RECURSIVE LastPatternFrom(_, _)
LastPatternFrom(k, fullText) ==
    IF k < 1 THEN NULL
    ELSE IF PatternTest(k, fullText) THEN ERROR_PAGE_PATTERNS[k].type
    ELSE LastPatternFrom(k - 1, fullText)

detectErrorInContentLastWins(page) ==
    LastPatternFrom(Len(ERROR_PAGE_PATTERNS), ErrorScanText(page))

\* detectErrorInContent(html, $): the detected type, or NULL
detectErrorInContent(page) == FirstPatternFrom(1, ErrorScanText(page))

\* a variant of the status tier without the branch for the proxy's own status
StatusErrorTypeNoProxyBranch(statusCode) ==
    IF statusCode = 401 THEN "UNAUTHORIZED"
    ELSE IF statusCode = 403 THEN "ACCESS_DENIED"
    ELSE IF statusCode = 404 THEN "PAGE_NOT_FOUND"
    ELSE IF statusCode = 429 THEN "RATE_LIMITED"
    ELSE IF statusCode >= 500 THEN "SERVER_ERROR"
    ELSE "HTTP_ERROR"

\* the status tier of requestHandler (statusCode >= 400)
StatusErrorType(statusCode) ==
    IF statusCode = 401 THEN "UNAUTHORIZED"
    ELSE IF statusCode = 403 THEN "ACCESS_DENIED"
    ELSE IF statusCode = 404 THEN "PAGE_NOT_FOUND"
    ELSE IF statusCode = 429 THEN "RATE_LIMITED"
    ELSE IF statusCode = 499 THEN "PROXY_RATE_LIMITED"
    ELSE IF statusCode >= 500 THEN "SERVER_ERROR"
    ELSE "HTTP_ERROR"

\* the two checks requestHandler makes before routing: which tier stopped the
\* page (or "none") and the error type it gave
ContentTier(contentError) ==
    IF contentError # NULL
    THEN [tier |-> "content", type |-> contentError]
    ELSE [tier |-> "none", type |-> NULL]

ClassifyResponse(statusCode, page) ==
    IF statusCode >= 400
    THEN [tier |-> "status", type |-> StatusErrorType(statusCode)]
    ELSE ContentTier(detectErrorInContent(page))

(***************************************************************************)
(* URL helpers (routes/utils.ts) and route patterns (routes/types.ts).     *)
(***************************************************************************)
\* position of the first character of s at or after from that is in chars
\* (Len(s) + 1 when there is none)
FirstOf(s, from, chars) ==
    FirstOrElse({i \in from..Len(s) : Char(s, i) \in chars}, Len(s) + 1)

\* new URL(url).protocol, e.g. "https:"
UrlProtocol(url) == SubSeq(url, 1, IndexOf(url, "://"))

\* new URL(url).host: what follows "://" up to the path, query or fragment
HostFrom(url, start) == SubSeq(url, start, FirstOf(url, start, {"/", "?", "#"}) - 1)
UrlHost(url) == HostFrom(url, IndexOf(url, "://") + 3)

\* new URL(url).hostname: the host without its port
UpTo(s, chars) == SubSeq(s, 1, FirstOf(s, 1, chars) - 1)
UrlHostname(url) == UpTo(UrlHost(url), {":"})

\* getBaseUrl(url): protocol + domain
getBaseUrl(url) == UrlProtocol(url) \o "//" \o UrlHost(url)

\* hostname.split('.'): the number of parts and the first part
FirstPartIfLong(hostname) ==
    IF Cardinality({i \in 1..Len(hostname) : Char(hostname, i) = "."}) + 1 > 2
    THEN UpTo(hostname, {"."})
    ELSE hostname

\* getSubdomain(url): parts.length > 2 ? parts[0] : hostname
getSubdomain(url) == FirstPartIfLong(UrlHostname(url))

LISTING == "LISTING"
JOB_DETAIL == "JOB_DETAIL"

\* the digits that start at position i of s
RECURSIVE DigitRun(_, _)
DigitRun(s, i) ==
    IF i <= Len(s) /\ IsDigit(Char(s, i)) THEN Char(s, i) \o DigitRun(s, i + 1) ELSE ""

\* URL_PATTERNS.LISTING.test(url):  /\/careers\/SearchJobs/i
ListingPatternTest(url) == Includes(Lower(url), "/careers/searchjobs")

\* URL_PATTERNS.JOB_DETAIL.test(url):  /\/careers\/JobDetail\/[^/]+\/\d+/i
\* [^/]+\/\d at position seg of low, the next "/" being at slash
SegmentThenDigit(low, seg, slash) ==
    slash > seg /\ slash < Len(low) /\ IsDigit(Char(low, slash + 1))

JobDetailMatch(low, prefix) ==
    \E i \in 1..Len(low) :
        /\ MatchAt(low, i, prefix)
        /\ SegmentThenDigit(low, i + Len(prefix), FirstOf(low, i + Len(prefix), {"/"}))

JobDetailPatternTest(url) == JobDetailMatch(Lower(url), "/careers/jobdetail/")

\* getRouteLabel(url)
getRouteLabel(url) ==
    IF JobDetailPatternTest(url) THEN JOB_DETAIL
    ELSE IF ListingPatternTest(url) THEN LISTING
    ELSE NULL

\* href.startsWith('http') ? href : `${baseUrl}${href.startsWith('/') ? '' : '/'}${href}`
ResolveHref(baseUrl, href) ==
    IF StartsWith(href, "http") THEN href
    ELSE baseUrl \o (IF StartsWith(href, "/") THEN "" ELSE "/") \o href

\* the default handler's resolution: href.startsWith('http') ? href : `${baseUrl}${href}`
ResolveHrefPlain(baseUrl, href) ==
    IF StartsWith(href, "http") THEN href ELSE baseUrl \o href

\* a JavaScript object used as a string map: obj[key], NULL for undefined
Get(obj, key) == IF key \in DOMAIN obj THEN obj[key] ELSE NULL

\* obj with obj[key] = value
Put(obj, key, value) ==
    [k \in DOMAIN obj \cup {key} |-> IF k = key THEN value ELSE obj[k]]

\* JavaScript truthiness of a string-or-undefined value
Truthy(v) == v # NULL /\ v # ""

\* a || b with the operands swapped: the right operand wins when it is truthy
OrRight(a, b) == IF Truthy(b) THEN b ELSE a

\* a || b  and  a ?? b  on strings that may be undefined
Or(a, b) == IF Truthy(a) THEN a ELSE b
Coalesce(a, b) == IF a # NULL THEN a ELSE b

(***************************************************************************)
(* Pages.  A fetched page is the parsed document the handlers query:       *)
(*   title     content of the <title> element                              *)
(*   bodyText  $('body').text()                                            *)
(*   cards     the job cards of a listing, in document order; each has the *)
(*             href of its title link (NULL without one), the text of its  *)
(*             title element, and its subtitle wrappers, each with its own *)
(*             text and its [class^=list-item-] children (class, text)     *)
(*   anchors   the other <a> elements of the page (href, text)             *)
(*   doc       what the field extractor reads on a detail page (below)     *)
(* A request is [url, label, userData]; userData holds title (NULL when    *)
(* undefined) and subtitles, with hasSubtitles telling an empty object     *)
(* from an undefined one.                                                  *)
(***************************************************************************)
EmptyObject == [k \in {} |-> NULL]

NoUserData == [title |-> NULL, subtitles |-> EmptyObject, hasSubtitles |-> FALSE]

\* userData: { title, subtitles }
CardUserData(title, subtitles) ==
    [title |-> title, subtitles |-> subtitles, hasSubtitles |-> TRUE]

Request(url, label, userData) == [url |-> url, label |-> label, userData |-> userData]

\* str.split(' ')
RECURSIVE SplitSpaces(_)
RECURSIVE SplitAt(_, _)
SplitSpaces(str) == SplitAt(str, IndexOf(str, " "))
SplitAt(str, sp) ==
    IF sp = 0 THEN <<str>>
    ELSE <<SubSeq(str, 1, sp - 1)>> \o SplitSpaces(Rest(str, sp + 1))

\* classNames.find((cn) => cn.startsWith('list-item-'))?.substring('list-item-'.length)
KeyAmong(classNames, found) ==
    IF found = {} THEN NULL ELSE Rest(classNames[MinOf(found)], Len("list-item-") + 1)
KeyOf(classNames) ==
    KeyAmong(classNames, {i \in 1..Len(classNames) : StartsWith(classNames[i], "list-item-")})
SubtitleKey(class) == KeyOf(SplitSpaces(class))

\* if (key) { subtitles[key] = $(el).text().trim() }
PutKey(subtitles, key, text) == IF ~Truthy(key) THEN subtitles ELSE Put(subtitles, key, Trim(text))

\* $subtitles.each(...) over the items of one wrapper, from item i on
RECURSIVE SubtitleItems(_, _, _)
SubtitleItems(items, i, subtitles) ==
    IF i > Len(items) THEN subtitles
    ELSE SubtitleItems(items, i + 1, PutKey(subtitles, SubtitleKey(items[i].class), items[i].text))

\* the subtitles object of one card: the wrappers from wrapper i on
RECURSIVE CardSubtitles(_, _, _)
CardSubtitles(subs, i, subtitles) ==
    IF i > Len(subs) THEN subtitles
    ELSE IF Len(subs[i].items) = 0
         THEN CardSubtitles(subs, i + 1, Put(subtitles, "default", Trim(subs[i].text)))
         ELSE CardSubtitles(subs, i + 1, SubtitleItems(subs[i].items, 1, subtitles))

\* the job-card loop without the href check: a card without a link is taken
\* as a link to the site root
RECURSIVE JobLinksFromUnlinked(_, _, _, _)
JobLinksFromUnlinked(cards, i, baseUrl, jobLinks) ==
    IF i > Len(cards) THEN jobLinks
    ELSE JobLinksFromUnlinked(cards, i + 1, baseUrl,
             Append(jobLinks,
                    Request(ResolveHref(baseUrl, IF Truthy(cards[i].href) THEN cards[i].href ELSE ""),
                            JOB_DETAIL,
                            CardUserData(Trim(cards[i].title),
                                         CardSubtitles(cards[i].subs, 1, EmptyObject)))))

\* the job-card loop without the seenUrls check
RECURSIVE JobLinksFromNoDedup(_, _, _, _)
JobLinksFromNoDedup(cards, i, baseUrl, jobLinks) ==
    IF i > Len(cards) THEN jobLinks
    ELSE IF ~Truthy(cards[i].href) THEN JobLinksFromNoDedup(cards, i + 1, baseUrl, jobLinks)
    ELSE JobLinksFromNoDedup(cards, i + 1, baseUrl,
             Append(jobLinks,
                    Request(ResolveHref(baseUrl, cards[i].href), JOB_DETAIL,
                            CardUserData(Trim(cards[i].title),
                                         CardSubtitles(cards[i].subs, 1, EmptyObject)))))

\* a seenUrls that outlives the invocation: the URLs the request queue knows
SeenUrlsOfQueue(known) == known

\* const seenUrls = new Set<string>(): empty at each invocation, whatever the
\* request queue already knows
NewSeenUrls(known) == {}

\* the job-card loop of listingHandler from card i on: jobLinks so far
RECURSIVE JobLinksFrom(_, _, _, _)
JobLinksFrom(cards, i, baseUrl, jobLinks) ==
    IF i > Len(cards) THEN jobLinks
    ELSE LET href == cards[i].href
             fullUrl == ResolveHref(baseUrl, href)
             seenUrls == {jobLinks[k].url : k \in 1..Len(jobLinks)}
         IN  IF ~Truthy(href) THEN JobLinksFrom(cards, i + 1, baseUrl, jobLinks)
             ELSE IF fullUrl \in seenUrls THEN JobLinksFrom(cards, i + 1, baseUrl, jobLinks)
             ELSE JobLinksFrom(cards, i + 1, baseUrl,
                      Append(jobLinks,
                             Request(fullUrl, JOB_DETAIL,
                                     CardUserData(Trim(cards[i].title),
                                                  CardSubtitles(cards[i].subs, 1, EmptyObject)))))

\* every <a> of the page in document order: the card links, then the others
AllAnchors(page) ==
    LET linked == SelectSeq(page.cards, LAMBDA c : c.href # NULL)
    IN  [k \in 1..Len(linked) |-> [href |-> linked[k].href, text |-> linked[k].title]]
        \o page.anchors

\* $('a[href*="jobOffset"], a[href*="SearchJobs"], a[href*="pageNumber"]')
PaginationAnchors(page) ==
    SelectSeq(AllAnchors(page),
              LAMBDA a : a.href # NULL /\ (\/ Includes(a.href, "jobOffset")
                                           \/ Includes(a.href, "SearchJobs")
                                           \/ Includes(a.href, "pageNumber")))

\* a pagination loop that does not look at the text of the link
RECURSIVE PaginationFromAnyText(_, _, _, _)
PaginationFromAnyText(as, i, baseUrl, links) ==
    IF i > Len(as) THEN links
    ELSE LET href == as[i].href
             fullUrl == ResolveHref(baseUrl, href)
             skip == \/ ~Truthy(href)
                     \/ href = "#" \/ href = ""
                     \/ fullUrl \in {links[k] : k \in 1..Len(links)}
         IN  IF skip THEN PaginationFromAnyText(as, i + 1, baseUrl, links)
             ELSE PaginationFromAnyText(as, i + 1, baseUrl, Append(links, fullUrl))

\* the pagination loop of listingHandler from anchor i on
RECURSIVE PaginationFrom(_, _, _, _)
PaginationFrom(as, i, baseUrl, links) ==
    IF i > Len(as) THEN links
    ELSE LET href == as[i].href
             text == Lower(Trim(as[i].text))
             fullUrl == ResolveHref(baseUrl, href)
             skip == \/ ~Truthy(href)
                     \/ Includes(text, "prev") \/ Includes(text, "<<") \/ Includes(text, "back")
                     \/ href = "#" \/ href = ""
                     \/ fullUrl \in {links[k] : k \in 1..Len(links)}
         IN  IF skip THEN PaginationFrom(as, i + 1, baseUrl, links)
             ELSE PaginationFrom(as, i + 1, baseUrl, Append(links, fullUrl))

\* enqueueLinks({ urls, label }): one request per url, no userData
LabelledRequests(urls, label) ==
    [k \in 1..Len(urls) |-> Request(urls[k], label, NoUserData)]

\* listingHandler: the requests it hands to addRequests and enqueueLinks, in
\* order; it pushes nothing to the dataset
listingHandler(url, page) ==
    LET baseUrl == getBaseUrl(url)
        jobLinks == JobLinksFrom(page.cards, 1, baseUrl, <<>>)
        paginationLinks == PaginationFrom(PaginationAnchors(page), 1, baseUrl, <<>>)
    IN  [enq |-> jobLinks \o LabelledRequests(paginationLinks, LISTING), emit |-> <<>>]

\* one link scan of defaultHandler: the anchors whose href contains part
RECURSIVE DefaultLinksFrom(_, _, _, _)
DefaultLinksFrom(as, i, baseUrl, links) ==
    IF i > Len(as) THEN links
    ELSE LET href == as[i].href
             fullUrl == ResolveHrefPlain(baseUrl, href)
         IN  IF ~Truthy(href) \/ fullUrl \in {links[k] : k \in 1..Len(links)}
             THEN DefaultLinksFrom(as, i + 1, baseUrl, links)
             ELSE DefaultLinksFrom(as, i + 1, baseUrl, Append(links, fullUrl))

\* defaultHandler: job-detail links, then listing links
defaultHandler(url, page) ==
    LET baseUrl == getBaseUrl(url)
        as == AllAnchors(page)
        \* a[href*="/careers/JobDetail/"], a[href*="/JobDetail/"]
        jobAnchors == SelectSeq(as, LAMBDA a : a.href # NULL /\ Includes(a.href, "/JobDetail/"))
        \* a[href*="/careers/SearchJobs"], a[href*="SearchJobs"]
        listingAnchors == SelectSeq(as, LAMBDA a : a.href # NULL /\ Includes(a.href, "SearchJobs"))
        jobLinks == DefaultLinksFrom(jobAnchors, 1, baseUrl, <<>>)
        listingLinks == DefaultLinksFrom(listingAnchors, 1, baseUrl, <<>>)
    IN  [enq |-> LabelledRequests(jobLinks, JOB_DETAIL) \o LabelledRequests(listingLinks, LISTING),
         emit |-> <<>>]

(***************************************************************************)
(* The field extractor (routes/extractors.ts).  The document of a detail   *)
(* page, page.doc, holds what its selectors return, in document order:     *)
(*   ogTitle    content of meta[property="og:title"], NULL without one     *)
(*   fontValue  text of the first field value with the font class          *)
(*   h1s        the <h1> elements: text, the classes hidden               *)
(*              (visibility--hidden--visually) and srOnly, and sel, the    *)
(*              title selectors (1..7) that match the element              *)
(*   fields     .article__content__view__field elements: label, value      *)
(*   strongs    p/div/span/li elements holding a strong or b: strong, full *)
(*   dts        <dt> elements: dt, and dd, the text of the next <dd>       *)
(*   rows       <tr> elements: th, td                                      *)
(*   blocks     div/span elements: text, and next, the next div/span       *)
(*   contentText  text of the main content region                          *)
(*   h3s        the <h3> elements: heading, and parts, the texts of the     *)
(*              siblings that follow up to the next h1, h2 or h3            *)
(*   sections   the section-like elements: heading, the text of the first   *)
(*              heading-like descendant, and content, the text of the       *)
(*              p, ul and ol descendants                                    *)
(* An element that is absent is NULL.                                      *)
(***************************************************************************)
\* companyPatterns.some((pattern) => pattern.test(text.trim()))
\* /^bloomberg$/i, /^ucla\s*health$/i, /^unifi$/i, /^avature$/i on t, lower-cased
CompanyPatternsTest(t) ==
    \/ t = "bloomberg"
    \/ (StartsWith(t, "ucla") /\ SkipSpace(t, 5) = Len(t) - 5 /\ Rest(t, Len(t) - 5) = "health")
    \/ t = "unifi"
    \/ t = "avature"

isCompanyName(text) == CompanyPatternsTest(Lower(Trim(text)))

IsSeparator(c) == c \in {"-", "|"}
IsLineBreak(c) == c \in {"\n", "\r"}

\* the tail  \s*[-|]\s*\d+\s*[-|]  of the first page-title pattern, at position i
SeparatorAt(s, i) == i <= Len(s) /\ IsSeparator(Char(s, i))
IdThenSeparator(s, num, digits) ==
    digits # "" /\ SeparatorAt(s, SkipSpace(s, num + Len(digits)))
IdTailFrom(s, sep1, num) == SeparatorAt(s, sep1) /\ IdThenSeparator(s, num, DigitRun(s, num))
TitleIdTail(s, i) == IdTailFrom(s, SkipSpace(s, i), SkipSpace(s, SkipSpace(s, i) + 1))

\* the tail  \s*[-|]\s*[A-Z]  of the simpler page-title pattern, at position i
UpperAt(s, i) == i <= Len(s) /\ IsUpper(Char(s, i))
TitleCompanyTail(s, i) ==
    SeparatorAt(s, SkipSpace(s, i)) /\ UpperAt(s, SkipSpace(s, SkipSpace(s, i) + 1))

\* the group of  ^(.+?)<tail> : the shortest non-empty prefix without a line
\* break that the tail follows; NULL when the pattern does not match
PrefixTo(s, ks) == IF ks = {} THEN NULL ELSE SubSeq(s, 1, MinOf(ks))
LazyPrefix(s, TailAt(_, _)) ==
    PrefixTo(s, {k \in 1..Len(s) : /\ \A j \in 1..k : ~IsLineBreak(Char(s, j))
                                   /\ TailAt(s, k + 1)})

\* the checks Methods 4 and 5 of getJobTitle make on a heading's text
HeadingQualifies(text) ==
    /\ text # ""
    /\ ~Includes(Lower(text), "home page")
    /\ ~Includes(Lower(text), "careers")
    /\ Len(text) > 5 /\ Len(text) < 200
    /\ ~isCompanyName(text)

\* text if it qualifies as a title, else NULL
Qualified(text) == IF HeadingQualifies(text) THEN text ELSE NULL

\* $(selector).first().text().trim() of the h1 elements hits, if it qualifies
QualifiedFirst(h1s, hits) == IF hits = {} THEN NULL ELSE Qualified(Trim(h1s[MinOf(hits)].text))

\* Method 4 from selector n on: the first h1 each selector matches
RECURSIVE TitleBySelectors(_, _)
TitleBySelectors(h1s, n) ==
    IF n > 7 THEN NULL
    ELSE Coalesce(QualifiedFirst(h1s, {i \in 1..Len(h1s) : n \in h1s[i].sel}),
                  TitleBySelectors(h1s, n + 1))

\* Method 5: the first visible h1 that qualifies
TitleByAnyHeading(h1s) ==
    QualifiedFirst(h1s, {i \in 1..Len(h1s) : /\ ~h1s[i].hidden /\ ~h1s[i].srOnly
                                             /\ HeadingQualifies(Trim(h1s[i].text))})

\* s.replace(/-/g, ' ')
RECURSIVE DashesToSpaces(_)
DashesToSpaces(s) ==
    IF s = "" THEN ""
    ELSE (IF Char(s, 1) = "-" THEN " " ELSE Char(s, 1)) \o DashesToSpaces(Rest(s, 2))

\* Method 6: url.match(/\/JobDetail\/([^/]+)\/\d+/), slug to title
SlugAt(url, at) == DashesToSpaces(SubSeq(url, at, FirstOf(url, at, {"/"}) - 1))
SlugAmong(url, prefix, hits) ==
    IF hits = {} THEN NULL ELSE SlugAt(url, MinOf(hits) + Len(prefix))
SlugMatch(url, prefix) ==
    SlugAmong(url, prefix,
              {i \in 1..Len(url) :
                  /\ MatchAt(url, i, prefix)
                  /\ SegmentThenDigit(url, i + Len(prefix), FirstOf(url, i + Len(prefix), {"/"}))})
TitleFromSlug(url) == SlugMatch(url, "/JobDetail/")

\* Methods 4 to 6 of getJobTitle
TitleFromHeadings(url, doc) ==
    Coalesce(TitleBySelectors(doc.h1s, 1),
             Coalesce(TitleByAnyHeading(doc.h1s), TitleFromSlug(url)))

\* Methods 2 and 3 of getJobTitle, then the rest
TitleFromPage(url, doc, pageTitle, titleMatch, simpleTitleMatch, bloombergTitle) ==
    IF pageTitle # "" /\ titleMatch # NULL /\ Len(titleMatch) > 5 THEN Trim(titleMatch)
    ELSE IF /\ pageTitle # "" /\ simpleTitleMatch # NULL
            /\ Len(simpleTitleMatch) > 5 /\ Len(simpleTitleMatch) < 150
         THEN Trim(simpleTitleMatch)
    ELSE IF bloombergTitle # "" /\ Len(bloombergTitle) > 5 /\ Len(bloombergTitle) < 200
         THEN bloombergTitle
    ELSE TitleFromHeadings(url, doc)

\* Method 1 of getJobTitle, then the rest
TitleFromMeta(url, doc, ogTitle, pageTitle) ==
    IF Truthy(ogTitle) /\ Len(ogTitle) > 5 /\ Len(ogTitle) < 200 THEN ogTitle
    ELSE TitleFromPage(url, doc, pageTitle,
                       LazyPrefix(pageTitle, TitleIdTail),
                       LazyPrefix(pageTitle, TitleCompanyTail),
                       Trim(doc.fontValue))

\* getJobTitle(url) on a page
getJobTitle(url, page) ==
    TitleFromMeta(url, page.doc,
                  IF page.doc.ogTitle = NULL THEN NULL ELSE Trim(page.doc.ogTitle),
                  Trim(page.title))

\* the first element of seq that satisfies Value(seq[i]) # NULL, as that value
FirstHit(seq, hits, Value(_)) == IF hits = {} THEN NULL ELSE Value(seq[MinOf(hits)])
FirstValue(seq, Value(_)) == FirstHit(seq, {i \in 1..Len(seq) : Value(seq[i]) # NULL}, Value)

\* s without the characters in chars
RECURSIVE RemoveChars(_, _)
RemoveChars(s, chars) ==
    IF s = "" THEN ""
    ELSE (IF Char(s, 1) \in chars THEN "" ELSE Char(s, 1)) \o RemoveChars(Rest(s, 2), chars)

\* s.replace(/^[:\-|\s]+/, '') (the pattern also lists an en dash and a bullet;
\* the model's text is ASCII)
RestFromFirst(s, keep) == IF keep = {} THEN "" ELSE Rest(s, MinOf(keep))
StripLeadingPunctuation(s) ==
    RestFromFirst(s, {i \in 1..Len(s) :
                         ~(IsSpace(Char(s, i)) \/ Char(s, i) \in {":", "-", "|"})})

\* the caps getFieldByLabels puts on a value
FieldValueCap == 500
SiblingValueCap == 200

\* Method 0 on one field element
FieldBlockMatch(labelTextContent, valueText, lowerLabel) ==
    IF /\ \/ Includes(labelTextContent, lowerLabel)
          \/ Includes(lowerLabel, Trim(RemoveChars(labelTextContent, {":", "#"})))
       /\ valueText # "" /\ Len(valueText) < FieldValueCap
    THEN valueText ELSE NULL

FieldBlockValue(el, lowerLabel) ==
    IF el.label = NULL \/ el.value = NULL THEN NULL
    ELSE FieldBlockMatch(Lower(Trim(el.label)), Trim(el.value), lowerLabel)

\* Method 1 on one element that holds a strong or b
\* fullText.substring(fullText.indexOf(strongPart) + strongPart.length), cleaned;
\* at is the 0-based index, -1 when strongPart is absent
RemainderAt(fullText, strongPart, at) ==
    Trim(StripLeadingPunctuation(Rest(fullText, Max(at + Len(strongPart), 0) + 1)))
RemainderOf(fullText, strongPart) ==
    RemainderAt(fullText, strongPart,
                (IF strongPart = "" THEN 1 ELSE IndexOf(fullText, strongPart)) - 1)
StrongMatch(strongText, remainder, lowerLabel) ==
    IF /\ Includes(strongText, lowerLabel)
       /\ remainder # "" /\ Len(remainder) < FieldValueCap
       /\ ~Includes(remainder, "twigConfig")
    THEN remainder ELSE NULL

StrongValue(el, lowerLabel) ==
    StrongMatch(Lower(Trim(el.strong)), RemainderOf(Trim(el.full), Trim(el.strong)), lowerLabel)

\* Method 2 on one dt
CappedValue(value) == IF value # "" /\ Len(value) < FieldValueCap THEN value ELSE NULL

DtValue(el, lowerLabel) ==
    IF Includes(Lower(Trim(el.dt)), lowerLabel) /\ el.dd # NULL
    THEN CappedValue(Trim(el.dd)) ELSE NULL

\* Method 3 on one table row
RowValue(el, lowerLabel) ==
    IF el.th # NULL /\ el.td # NULL /\ Includes(Lower(Trim(el.th)), lowerLabel)
    THEN CappedValue(Trim(el.td)) ELSE NULL

\* Method 4 on one div or span
NotAnotherLabel(lowNext) ==
    /\ ~Includes(lowNext, "location")
    /\ ~Includes(lowNext, "business area")
    /\ ~Includes(lowNext, "ref #")
SiblingMatch(text, nextText, lowerLabel) ==
    IF /\ (text = lowerLabel \/ text = lowerLabel \o ":")
       /\ nextText # "" /\ Len(nextText) < SiblingValueCap
       /\ NotAnotherLabel(Lower(nextText))
    THEN nextText ELSE NULL

SiblingValue(el, lowerLabel) ==
    IF el.next = NULL THEN NULL
    ELSE SiblingMatch(Lower(Trim(el.text)), Trim(el.next), lowerLabel)

\* the body of the for loop of getFieldByLabels for one label
FieldByLowerLabel(doc, lowerLabel) ==
    Coalesce(FirstValue(doc.fields, LAMBDA el : FieldBlockValue(el, lowerLabel)),
    Coalesce(FirstValue(doc.strongs, LAMBDA el : StrongValue(el, lowerLabel)),
    Coalesce(FirstValue(doc.dts, LAMBDA el : DtValue(el, lowerLabel)),
    Coalesce(FirstValue(doc.rows, LAMBDA el : RowValue(el, lowerLabel)),
             FirstValue(doc.blocks, LAMBDA el : SiblingValue(el, lowerLabel))))))

FieldByLabel(doc, labelText) == FieldByLowerLabel(doc, Lower(labelText))

\* getFieldByLabels with the loops exchanged: each method tries every label
\* before the next method is tried
getFieldByLabelsMethodFirst(doc, labels) ==
    Coalesce(FirstValue(labels, LAMBDA labelText :
                FirstValue(doc.fields, LAMBDA el : FieldBlockValue(el, Lower(labelText)))),
    Coalesce(FirstValue(labels, LAMBDA labelText :
                FirstValue(doc.strongs, LAMBDA el : StrongValue(el, Lower(labelText)))),
    Coalesce(FirstValue(labels, LAMBDA labelText :
                FirstValue(doc.dts, LAMBDA el : DtValue(el, Lower(labelText)))),
    Coalesce(FirstValue(labels, LAMBDA labelText :
                FirstValue(doc.rows, LAMBDA el : RowValue(el, Lower(labelText)))),
             FirstValue(labels, LAMBDA labelText :
                FirstValue(doc.blocks, LAMBDA el : SiblingValue(el, Lower(labelText))))))))

\* getFieldByLabels(labels)
getFieldByLabels(doc, labels) ==
    FirstValue(labels, LAMBDA labelText : FieldByLabel(doc, labelText))

\* the words that end a value in getFieldFromText
StopWords == {"location", "business area", "ref", "posted", "salary", "department"}
TextValueMin == 3
TextValueMax == 100

\* the lookahead (?=\s*(?:Location|Business Area|Ref|Posted|Salary|Department|$)) at q
StopLookahead(low, q) ==
    LET r == SkipSpace(low, q)
    IN  r = Len(low) + 1 \/ \E w \in StopWords : MatchAt(low, r, w)

\* [^\n]{3,100} at c followed by the lookahead: the lengths that match
ValueLengths(low, c) ==
    {n \in TextValueMin..Min(TextValueMax, Len(low) - c + 1) :
        /\ \A j \in c..(c + n - 1) : Char(low, j) # "\n"
        /\ StopLookahead(low, c + n)}

\* [:\s]* from after on: the positions c where the value can start
ValueStarts(low, after) ==
    {c \in after..(Len(low) + 1) :
        /\ \A j \in after..(c - 1) : Char(low, j) = ":" \/ IsSpace(Char(low, j))
        /\ ValueLengths(low, c) # {}}

\* the positions where the whole pattern matches
MatchStarts(low, lowLabel) ==
    {p \in 1..Len(low) : MatchAt(low, p, lowLabel) /\ ValueStarts(low, p + Len(lowLabel)) # {}}

\* the group of the match: both quantifiers are greedy
GroupAt(bodyText, low, c) == SubSeq(bodyText, c, c + MaxOf(ValueLengths(low, c)) - 1)
GroupFrom(bodyText, low, after) == GroupAt(bodyText, low, MaxOf(ValueStarts(low, after)))
GroupAmong(bodyText, low, lowLabel, starts) ==
    IF starts = {} THEN NULL ELSE GroupFrom(bodyText, low, MinOf(starts) + Len(lowLabel))
GroupOf(bodyText, low, lowLabel) ==
    GroupAmong(bodyText, low, lowLabel, MatchStarts(low, lowLabel))

\* bodyText.match(pattern)[1] for one label (the i flag: matched in lower case):
\* the leftmost match, NULL without one
FieldFromTextMatch(bodyText, label) == GroupOf(bodyText, Lower(bodyText), Lower(label))

\* value && value.length < 200 && !value.includes('twigConfig')
AcceptedValue(value) ==
    IF value # "" /\ Len(value) < SiblingValueCap /\ ~Includes(value, "twigConfig")
    THEN value ELSE NULL
AcceptedGroup(match) == IF match # NULL /\ match # "" THEN AcceptedValue(Trim(match)) ELSE NULL

\* the body of the for loop of getFieldFromText for one label
FieldFromTextValue(bodyText, label) == AcceptedGroup(FieldFromTextMatch(bodyText, label))

\* getFieldFromText(labels)
getFieldFromText(page, labels) ==
    FirstValue(labels, LAMBDA label : FieldFromTextValue(page.bodyText, label))

\* first position at or after j that holds neither ":" nor white space
RECURSIVE SkipGap(_, _)
SkipGap(low, j) ==
    IF j <= Len(low) /\ (Char(low, j) = ":" \/ IsSpace(Char(low, j)))
    THEN SkipGap(low, j + 1) ELSE j

HashAt(low, j) == j <= Len(low) /\ Char(low, j) = "#"
AfterOptionalHash(low, j) == SkipSpace(low, IF HashAt(low, j) THEN j + 1 ELSE j)

\* (?:job\s*#|ref\s*#|requisition[:\s]*#?)\s* at i: where the digits must
\* start, 0 when the prefix does not match at i
RefDigitsAt(low, i) ==
    IF MatchAt(low, i, "job") /\ HashAt(low, SkipSpace(low, i + Len("job")))
    THEN SkipSpace(low, SkipSpace(low, i + Len("job")) + 1)
    ELSE IF MatchAt(low, i, "ref") /\ HashAt(low, SkipSpace(low, i + Len("ref")))
    THEN SkipSpace(low, SkipSpace(low, i + Len("ref")) + 1)
    ELSE IF MatchAt(low, i, "requisition")
    THEN AfterOptionalHash(low, SkipGap(low, i + Len("requisition")))
    ELSE 0

RefDigitsFrom(low, at) == IF at = 0 THEN "" ELSE DigitRun(low, at)
FirstRef(low, hits) ==
    IF hits = {} THEN NULL ELSE RefDigitsFrom(low, RefDigitsAt(low, MinOf(hits)))
RefIn(low) ==
    FirstRef(low, {i \in 1..Len(low) : RefDigitsFrom(low, RefDigitsAt(low, i)) # ""})

\* getTextByPattern(/(?:job\s*#|ref\s*#|requisition[:\s]*#?)\s*(\d+)/i)
RefNumberByPattern(page) ==
    RefIn(Lower(IF page.doc.contentText # "" THEN page.doc.contentText ELSE page.bodyText))

(***************************************************************************)
(* parseDate and parseSalary (routes/extractors.ts).                       *)
(***************************************************************************)

\* String.prototype.padStart(2, '0')
PadStart2(s) == IF Len(s) < 2 THEN "0" \o s ELSE s

\* \d{n} at position i of s
DigitsAt(s, i, n) ==
    i >= 1 /\ i + n - 1 <= Len(s) /\ \A k \in i..(i + n - 1) : IsDigit(Char(s, k))

\* /^\d{4}-\d{2}-\d{2}/.test(dateStr)
IsoPrefixTest(s) ==
    /\ DigitsAt(s, 1, 4) /\ MatchAt(s, 5, "-")
    /\ DigitsAt(s, 6, 2) /\ MatchAt(s, 8, "-")
    /\ DigitsAt(s, 9, 2)

\* (\d{1,2}) at position i followed by the literal sep: the length of the
\* group (greedy: two digits first), 0 when it does not match
NumLen(s, i, sep) ==
    IF DigitsAt(s, i, 2) /\ MatchAt(s, i + 2, sep) THEN 2
    ELSE IF DigitsAt(s, i, 1) /\ MatchAt(s, i + 1, sep) THEN 1
    ELSE 0

\* /(\d{1,2})\/(\d{1,2})\/(\d{4})/ at position i: n1 and n2 are the lengths of
\* the first two groups
MdyTail(s, j, n2) == n2 > 0 /\ DigitsAt(s, j + n2 + 1, 4)
MdyFrom(s, i, n1) == n1 > 0 /\ MdyTail(s, i + n1 + 1, NumLen(s, i + n1 + 1, "/"))
MdyMatchAt(s, i) == MdyFrom(s, i, NumLen(s, i, "/"))

\* `${mdyMatch[3]}-${mdyMatch[1].padStart(2, '0')}-${mdyMatch[2].padStart(2, '0')}`
MdyDayFirst(s, i, n1, n2) ==
    SubSeq(s, i + n1 + n2 + 2, i + n1 + n2 + 5)
        \o "-" \o PadStart2(SubSeq(s, i + n1 + 1, i + n1 + n2))
        \o "-" \o PadStart2(SubSeq(s, i, i + n1 - 1))
MdyDate(s, i, n1, n2) ==
    SubSeq(s, i + n1 + n2 + 2, i + n1 + n2 + 5)
        \o "-" \o PadStart2(SubSeq(s, i, i + n1 - 1))
        \o "-" \o PadStart2(SubSeq(s, i + n1 + 1, i + n1 + n2))
MdyDateFrom(s, i, n1) == MdyDate(s, i, n1, NumLen(s, i + n1 + 1, "/"))
MdyDateAt(s, i) == MdyDateFrom(s, i, NumLen(s, i, "/"))

\* the month table of the D-Mon-YYYY branch
ShortMonths ==
    <<"jan", "feb", "mar", "apr", "may", "jun",
      "jul", "aug", "sep", "oct", "nov", "dec">>
\* the month table of the 'Month D, YYYY' branch
LongMonths ==
    <<"january", "february", "march", "april", "may", "june",
      "july", "august", "september", "october", "november", "december">>

\* the value of month number n in either table: '01' .. '12'
MonthValue(n) == PadStart2(ToString(n))

\* months[name]: NULL (undefined) for a name that is not a key.  The tables
\* are object literals, so the only other all-lowercase name they answer to
\* is the inherited constructor, whose value is the Object function; the
\* template literal prints it as below.
ObjectFunctionText == "function Object() { [native code] }"
MonthLookup(months, name) ==
    IF \E n \in 1..Len(months) : months[n] = name
    THEN MonthValue(CHOOSE n \in 1..Len(months) : months[n] = name)
    ELSE IF name = "constructor" THEN ObjectFunctionText
    ELSE NULL

\* /(\d{1,2})-([A-Za-z]{3})-(\d{4})/ at position i: n1 is the length of the day
LettersAt(s, i, n) ==
    i >= 1 /\ i + n - 1 <= Len(s) /\ \A k \in i..(i + n - 1) : IsLetter(Char(s, k))
DMyFrom(s, i, n1) ==
    /\ n1 > 0
    /\ LettersAt(s, i + n1 + 1, 3)
    /\ MatchAt(s, i + n1 + 4, "-")
    /\ DigitsAt(s, i + n1 + 5, 4)
DMyMatchAt(s, i) == DMyFrom(s, i, NumLen(s, i, "-"))
\* months[dMyMatch[2].toLowerCase()]
DMyMonthFrom(s, i, n1) == MonthLookup(ShortMonths, Lower(SubSeq(s, i + n1 + 1, i + n1 + 3)))
DMyMonthAt(s, i) == DMyMonthFrom(s, i, NumLen(s, i, "-"))
\* `${dMyMatch[3]}-${month}-${dMyMatch[1].padStart(2, '0')}`
DMyDateFrom(s, i, n1, month) ==
    SubSeq(s, i + n1 + 5, i + n1 + 8) \o "-" \o month
        \o "-" \o PadStart2(SubSeq(s, i, i + n1 - 1))
DMyDateAt(s, i, month) == DMyDateFrom(s, i, NumLen(s, i, "-"), month)

\* first position at or after i that holds no letter
RECURSIVE SkipLetters(_, _)
SkipLetters(s, i) ==
    IF i <= Len(s) /\ IsLetter(Char(s, i)) THEN SkipLetters(s, i + 1) ELSE i

\* ,?\s+(\d{4}) at position j
FullYearFrom(s, j) == IF MatchAt(s, j, ",") THEN j + 1 ELSE j
FullYearAt(s, j) == SkipSpace(s, FullYearFrom(s, j))
FullTail(s, j) ==
    /\ FullYearFrom(s, j) <= Len(s)
    /\ IsSpace(Char(s, FullYearFrom(s, j)))
    /\ DigitsAt(s, FullYearAt(s, j), 4)
\* (\d{1,2}),?\s+(\d{4}) at position j: the length of the day, 0 for no match
FullDayLen(s, j) ==
    IF DigitsAt(s, j, 2) /\ FullTail(s, j + 2) THEN 2
    ELSE IF DigitsAt(s, j, 1) /\ FullTail(s, j + 1) THEN 1
    ELSE 0
\* /([A-Za-z]+)\s+(\d{1,2}),?\s+(\d{4})/ at position i; e is the position after
\* the letters, j the position of the day
FullFrom(s, i, e) ==
    /\ e > i
    /\ e <= Len(s) /\ IsSpace(Char(s, e))
    /\ FullDayLen(s, SkipSpace(s, e)) > 0
FullMatchAt(s, i) == i <= Len(s) /\ FullFrom(s, i, SkipLetters(s, i))
\* months[fullMatch[1].toLowerCase()]
FullMonthAt(s, i) == MonthLookup(LongMonths, Lower(SubSeq(s, i, SkipLetters(s, i) - 1)))
\* `${fullMatch[3]}-${month}-${fullMatch[2].padStart(2, '0')}`
FullDateFrom(s, j, n, month) ==
    SubSeq(s, FullYearAt(s, j + n), FullYearAt(s, j + n) + 3) \o "-" \o month
        \o "-" \o PadStart2(SubSeq(s, j, j + n - 1))
FullDateDay(s, j, month) == FullDateFrom(s, j, FullDayLen(s, j), month)
FullDateAt(s, i, month) == FullDateDay(s, SkipSpace(s, SkipLetters(s, i)), month)

\* String.prototype.match without the g flag: the leftmost position at which
\* the expression matches, 0 for null
MdyMatch(s) == FirstOrElse({i \in 1..Len(s) : MdyMatchAt(s, i)}, 0)
DMyMatch(s) == FirstOrElse({i \in 1..Len(s) : DMyMatchAt(s, i)}, 0)
FullMatch(s) == FirstOrElse({i \in 1..Len(s) : FullMatchAt(s, i)}, 0)

\* the 'Month D, YYYY' branch and the final return
parseFull(s, i) ==
    IF i # 0 /\ FullMonthAt(s, i) # NULL THEN FullDateAt(s, i, FullMonthAt(s, i))
    ELSE s
\* the D-Mon-YYYY branch, falling through when the month is not in the table
parseDMy(s, i) ==
    IF i # 0 /\ DMyMonthAt(s, i) # NULL THEN DMyDateAt(s, i, DMyMonthAt(s, i))
    ELSE parseFull(s, FullMatch(s))
\* the M/D/YYYY branch
parseMdy(s, i) == IF i # 0 THEN MdyDateAt(s, i) ELSE parseDMy(s, DMyMatch(s))

parseDateDropsUnmatched(dateStr) ==
    IF dateStr = NULL \/ dateStr = "" THEN NULL
    ELSE IF IsoPrefixTest(dateStr) THEN dateStr
    ELSE IF MdyMatch(dateStr) = 0 /\ DMyMatch(dateStr) = 0 /\ FullMatch(dateStr) = 0
         THEN NULL
    ELSE parseMdy(dateStr, MdyMatch(dateStr))

parseDate(dateStr) ==
    IF dateStr = NULL \/ dateStr = "" THEN NULL
    ELSE IF IsoPrefixTest(dateStr) THEN dateStr
    ELSE parseMdy(dateStr, MdyMatch(dateStr))

\* first position at or after i that holds neither a digit nor a comma
RECURSIVE SkipAmountChars(_, _)
SkipAmountChars(s, i) ==
    IF i <= Len(s) /\ (IsDigit(Char(s, i)) \/ Char(s, i) = ",")
    THEN SkipAmountChars(s, i + 1) ELSE i

\* first position at or after i that holds no digit
RECURSIVE SkipDigits(_, _)
SkipDigits(s, i) ==
    IF i <= Len(s) /\ IsDigit(Char(s, i)) THEN SkipDigits(s, i + 1) ELSE i

\* [-to]+ under the i flag (the class also lists an en dash; the model's text
\* is ASCII): first position at or after i that holds none of its characters
RangeSeparators == {"-", "t", "o", "T", "O"}
RECURSIVE SkipSeparators(_, _)
SkipSeparators(s, i) ==
    IF i <= Len(s) /\ Char(s, i) \in RangeSeparators
    THEN SkipSeparators(s, i + 1) ELSE i

\* ([\d,]+(?:\.\d+)?) at position g: the position after the group, 0 when it
\* does not match; e is the position after the digits and commas
AmountRunEnd(s, g, e) ==
    IF e = g THEN 0
    ELSE IF MatchAt(s, e, ".") /\ DigitsAt(s, e + 1, 1) THEN SkipDigits(s, e + 1)
    ELSE e
AmountEnd(s, g) == AmountRunEnd(s, g, SkipAmountChars(s, g))
AmountText(s, g) == SubSeq(s, g, AmountEnd(s, g) - 1)

\* \$? at position i: the position of what follows it
AmountStart(s, i) == IF MatchAt(s, i, "$") THEN i + 1 ELSE i

\* \s*[-to]+\s*\$? after the first amount, which ends before e1: whether the
\* separator is there, and the position of the second amount
HasSeparator(s, k) == SkipSeparators(s, k) > k
SecondAmountStart(s, e1) ==
    AmountStart(s, SkipSpace(s, SkipSeparators(s, SkipSpace(s, e1))))

\* /\$?([\d,]+(?:\.\d+)?)\s*[-to]+\s*\$?([\d,]+(?:\.\d+)?)/i at position i
RangeFrom(s, e1) ==
    /\ e1 # 0
    /\ HasSeparator(s, SkipSpace(s, e1))
    /\ AmountEnd(s, SecondAmountStart(s, e1)) # 0
RangeMatchAt(s, i) == RangeFrom(s, AmountEnd(s, AmountStart(s, i)))
RangeMatch(s) == FirstOrElse({i \in 1..Len(s) : RangeMatchAt(s, i)}, 0)

\* /\$?([\d,]+(?:\.\d+)?)/ at position i
SingleMatchAt(s, i) == AmountEnd(s, AmountStart(s, i)) # 0
SingleMatch(s) == FirstOrElse({i \in 1..Len(s) : SingleMatchAt(s, i)}, 0)

\* group.replace(/,/g, '')
RemoveCommas(s) == RemoveChars(s, {","})

\* rangeMatch[1] and rangeMatch[2] of the match at position i
FirstGroup(s, i) == AmountText(s, AmountStart(s, i))
SecondGroup(s, i) == AmountText(s, SecondAmountStart(s, AmountEnd(s, AmountStart(s, i))))

\* the period of the salary, from the lower-cased text
SalaryPeriod(lowerSalary) ==
    IF Includes(lowerSalary, "hour") THEN "hourly"
    ELSE IF Includes(lowerSalary, "year") \/ Includes(lowerSalary, "annual") THEN "yearly"
    ELSE IF Includes(lowerSalary, "month") THEN "monthly"
    ELSE IF Includes(lowerSalary, "week") THEN "weekly"
    ELSE NULL

\* the single-amount branch and the final return
parseSingle(s, i, period) ==
    IF i # 0
    THEN [min |-> RemoveCommas(FirstGroup(s, i)), max |-> RemoveCommas(FirstGroup(s, i)),
          raw |-> s, period |-> period]
    ELSE [min |-> NULL, max |-> NULL, raw |-> s, period |-> period]
\* the range branch
parseRange(s, i, period) ==
    IF i # 0
    THEN [min |-> RemoveCommas(FirstGroup(s, i)), max |-> RemoveCommas(SecondGroup(s, i)),
          raw |-> s, period |-> period]
    ELSE parseSingle(s, SingleMatch(s), period)

parseSalary(salaryStr) ==
    IF salaryStr = NULL \/ salaryStr = ""
    THEN [min |-> NULL, max |-> NULL, raw |-> salaryStr, period |-> NULL]
    ELSE parseRange(salaryStr, RangeMatch(salaryStr), SalaryPeriod(Lower(salaryStr)))

(***************************************************************************)
(* The job-detail handler (routes/job-detail.handler.ts).                  *)
(***************************************************************************)
\* url.match(/\/(\d+)(?:[/?#]|$)/)?.[1] ?? null
IdEndsAt(url, end) == end = Len(url) + 1 \/ Char(url, end) \in {"/", "?", "#"}
IdAmong(url, hits) == IF hits = {} THEN NULL ELSE DigitRun(url, MinOf(hits) + 1)
JobIdOf(url) ==
    IdAmong(url, {i \in 1..Len(url) :
                     /\ Char(url, i) = "/"
                     /\ DigitRun(url, i + 1) # ""
                     /\ IdEndsAt(url, i + 1 + Len(DigitRun(url, i + 1)))})

\* s.replaceAll(/(ref)\s#/g, '')
RECURSIVE RemoveRefMarks(_)
RemoveRefMarks(s) ==
    IF s = "" THEN ""
    ELSE IF MatchAt(s, 1, "ref") /\ Len(s) >= 5 /\ IsSpace(Char(s, 4)) /\ Char(s, 5) = "#"
         THEN RemoveRefMarks(Rest(s, 6))
         ELSE Char(s, 1) \o RemoveRefMarks(Rest(s, 2))

\* request.userData?.subtitles?.ref?.toLowerCase().replaceAll(/(ref)\s#/g, '')
RefHint(subtitles) ==
    IF Get(subtitles, "ref") = NULL THEN NULL
    ELSE RemoveRefMarks(Lower(Get(subtitles, "ref")))

\* the record's refNumber without the comparison with jobId
KeepRefNumber(refNumber, jobId) == refNumber

\* refNumber !== jobId ? refNumber : null
DistinctFromJobId(refNumber, jobId) == IF refNumber # jobId THEN refNumber ELSE NULL

\* contentParts.join('\n')
RECURSIVE JoinLines(_)
JoinLines(parts) ==
    IF parts = <<>> THEN ""
    ELSE IF Len(parts) = 1 THEN parts[1]
    ELSE parts[1] \o "\n" \o JoinLines(Tail(parts))

\* the shortest content a description section may hold
MinSectionLength == 20

\* the content below an <h3>: the trimmed texts of its siblings, without the
\* empty ones and the widget hints
TrimAll(parts) == [k \in 1..Len(parts) |-> Trim(parts[k])]
KeptParts(texts) ==
    SelectSeq(texts, LAMBDA text : text # "" /\ ~Includes(text, "Press space or enter"))
HeadingContent(h) == JoinLines(KeptParts(TrimAll(h.parts)))

NoSections == [description |-> NULL, qualifications |-> "", duties |-> ""]

\* method 1, one <h3>: b holds description, qualifications and duties so far
HeadingBucket(b, headingText, content) ==
    IF content = "" \/ Len(content) < MinSectionLength THEN b
    ELSE IF \/ Includes(headingText, "primary dut") \/ Includes(headingText, "responsibilit")
            \/ Includes(headingText, "what you")
    THEN [b EXCEPT !.duties = IF @ # "" THEN @ \o "\n" \o content ELSE content]
    ELSE IF \/ Includes(headingText, "qualification") \/ Includes(headingText, "requirement")
            \/ Includes(headingText, "skills") \/ Includes(headingText, "experience")
    THEN [b EXCEPT !.qualifications = IF @ # "" THEN @ \o "\n" \o content ELSE content]
    ELSE IF \/ Includes(headingText, "description") \/ Includes(headingText, "overview")
            \/ Includes(headingText, "summary") \/ Includes(headingText, "about the role")
    THEN IF b.description = NULL \/ b.description = "" \/ Len(content) > Len(b.description)
         THEN [b EXCEPT !.description = content] ELSE b
    ELSE b

RECURSIVE SectionsByHeading(_, _, _)
SectionsByHeading(h3s, i, b) ==
    IF i > Len(h3s) THEN b
    ELSE SectionsByHeading(h3s, i + 1,
             HeadingBucket(b, Lower(Trim(h3s[i].heading)), HeadingContent(h3s[i])))

\* method 2, one section-like element
SectionBucket(b, heading, content) ==
    IF content = "" \/ Len(content) < MinSectionLength THEN b
    ELSE IF \/ Includes(heading, "description") \/ Includes(heading, "overview")
            \/ Includes(heading, "summary") \/ Includes(heading, "about")
    THEN IF b.description = NULL \/ b.description = "" \/ Len(content) > Len(b.description)
         THEN [b EXCEPT !.description = content] ELSE b
    ELSE IF \/ Includes(heading, "qualification") \/ Includes(heading, "requirement")
            \/ Includes(heading, "skills") \/ Includes(heading, "experience")
    THEN IF b.qualifications = "" THEN [b EXCEPT !.qualifications = content] ELSE b
    ELSE IF \/ Includes(heading, "dut") \/ Includes(heading, "responsibilit")
            \/ Includes(heading, "what you")
    THEN IF b.duties = "" THEN [b EXCEPT !.duties = content] ELSE b
    ELSE b

RECURSIVE SectionsByElement(_, _, _)
SectionsByElement(sections, i, b) ==
    IF i > Len(sections) THEN b
    ELSE SectionsByElement(sections, i + 1,
             SectionBucket(b, Lower(Trim(sections[i].heading)), Trim(sections[i].content)))

\* description, qualifications and duties after both methods
DescriptionSections(doc) ==
    SectionsByElement(doc.sections, 1, SectionsByHeading(doc.h3s, 1, NoSections))

\* $('main, article, [role="main"], #content, .content').first().text().trim()
\* (the document of the model has one such region)
FullContentOf(doc) == Trim(doc.contentText)

\* jobDetailHandler: the record it pushes (the fields the hints can reach and
\* the identifiers); it enqueues nothing
jobDetailHandler(url, page, userData, now) ==
    LET doc == page.doc
        subtitles == userData.subtitles
        jobId == JobIdOf(url)
        title == Or(userData.title, getJobTitle(url, page))
        location ==
            Or(Get(subtitles, "location"),
               Or(Get(subtitles, "locationBuiltIn"),
                  Coalesce(getFieldByLabels(doc, <<"work location", "location", "job location",
                                                   "city", "office location">>),
                           getFieldFromText(page, <<"Location">>))))
        employmentType ==
            Or(Get(subtitles, "workingTime"),
               getFieldByLabels(doc, <<"employment type", "job type", "position type",
                                       "full/part time", "full time/part time", "type">>))
        duration ==
            Or(Get(subtitles, "contractType"),
               getFieldByLabels(doc, <<"duration", "contract length", "term", "assignment length">>))
        department ==
            Or(Get(subtitles, "department"),
               Coalesce(getFieldByLabels(doc, <<"department", "business area", "division", "team",
                                                "group", "organization">>),
                        getFieldFromText(page, <<"Business Area", "Department">>)))
        entity ==
            Or(Get(subtitles, "legalEntity"),
               getFieldByLabels(doc, <<"entity", "company", "subsidiary", "business unit",
                                       "legal entity">>))
        refNumber ==
            Or(RefHint(subtitles),
               Coalesce(getFieldByLabels(doc, <<"job #", "job number", "requisition", "req id",
                                                "position id", "opening id", "ref", "ref #">>),
                        Coalesce(getFieldFromText(page, <<"Ref #", "Ref#", "Reference">>),
                                 RefNumberByPattern(page))))
        sections == DescriptionSections(doc)
        jobData == [url |-> url,
                    jobId |-> jobId,
                    refNumber |-> DistinctFromJobId(refNumber, jobId),
                    subdomain |-> getSubdomain(url),
                    title |-> title,
                    location |-> location,
                    employmentType |-> employmentType,
                    duration |-> duration,
                    department |-> department,
                    entity |-> entity,
                    description |-> sections.description,
                    qualifications |-> IF sections.qualifications # ""
                                       THEN sections.qualifications ELSE NULL,
                    duties |-> IF sections.duties # "" THEN sections.duties ELSE NULL,
                    fullContent |-> FullContentOf(doc),
                    \* request.userData?.subtitles || null
                    additional |-> [present |-> userData.hasSubtitles, value |-> subtitles],
                    scrapedAt |-> now]
    IN  [enq |-> <<>>, emit |-> <<jobData>>]

\* $('.visibility--hidden--visually').remove() in requestHandler
RemoveHidden(page) ==
    [page EXCEPT !.doc.h1s = SelectSeq(page.doc.h1s, LAMBDA h : ~h.hidden)]

\* a router whose job-detail route also enqueues the site's listing
routerDetailEnqueuesListing(request, page, now) ==
    IF request.label = LISTING THEN listingHandler(request.url, page)
    ELSE IF request.label = JOB_DETAIL
         THEN [enq |-> <<Request(getBaseUrl(request.url) \o "/careers/SearchJobs?page=2",
                                 LISTING, NoUserData)>>,
               emit |-> jobDetailHandler(request.url, page, request.userData, now).emit]
    ELSE defaultHandler(request.url, page)

\* router(context): the handler registered for the request's label
router(request, page, now) ==
    IF request.label = LISTING THEN listingHandler(request.url, page)
    ELSE IF request.label = JOB_DETAIL
         THEN jobDetailHandler(request.url, page, request.userData, now)
    ELSE defaultHandler(request.url, page)

(***************************************************************************)
(* The evidence recorder and the crawler callbacks (main.ts).              *)
(***************************************************************************)
\* a file name without the subdomain: `${errorType.toLowerCase()}-${timestamp}.html`
EvidenceFileNameNoSubdomain(url, errorType, now) ==
    Lower(errorType) \o "-" \o ToString(now) \o ".html"

\* `${subdomain}-${errorType.toLowerCase()}-${timestamp}.html`
EvidenceFileName(url, errorType, now) ==
    getSubdomain(url) \o "-" \o Lower(errorType) \o "-" \o ToString(now) \o ".html"

\* saveErrorSample without its try/catch: a failing write is thrown to the caller
saveErrorSampleUncaught(url, html, errorType, errorMessage, statusCode, now, writeOk) ==
    [files |-> IF writeOk
               THEN <<[name |-> getSubdomain(url) \o "-" \o Lower(errorType) \o "-"
                                \o ToString(now) \o ".html",
                       content |-> [url |-> url,
                                    errorType |-> errorType,
                                    errorMessage |-> errorMessage,
                                    httpStatus |-> statusCode,
                                    capturedAt |-> now,
                                    html |-> html]]>>
               ELSE <<>>,
     threw |-> ~writeOk]

\* saveErrorSample: the files it writes (none when the write fails: the error
\* is caught and logged) and whether it throws.  html is the snapshot written
\* below the header.
saveErrorSample(url, html, errorType, errorMessage, statusCode, now, writeOk) ==
    [files |-> IF writeOk
               THEN <<[name |-> EvidenceFileName(url, errorType, now),
                       content |-> [url |-> url,
                                    errorType |-> errorType,
                                    errorMessage |-> errorMessage,
                                    httpStatus |-> statusCode,
                                    capturedAt |-> now,
                                    html |-> html]]>>
               ELSE <<>>,
     threw |-> FALSE]

NothingSaved == [files |-> <<>>, threw |-> FALSE]
NoEffect == [enq |-> <<>>, emit |-> <<>>]

\* the error branches of requestHandler throwing on a rate limit, to have the
\* crawler retry the request
StoppedThrowsRateLimit(class, saved) ==
    [class |-> class,
     saved |-> [saved EXCEPT !.threw = class.type \in {"RATE_LIMITED", "PROXY_RATE_LIMITED"}],
     effect |-> NoEffect]

\* the error branches of requestHandler: log, save the sample if enabled, return
Stopped(class, saved) == [class |-> class, saved |-> saved, effect |-> NoEffect]

ErrorMessageOf(class, statusCode) ==
    IF class.tier = "status"
    THEN "HTTP " \o ToString(statusCode) \o " error"
    ELSE "Detected error pattern: " \o class.type

\* requestHandler without the return statements of its error branches: the
\* page is routed whatever its classification
HandleRoutesAnyway(request, statusCode, page, save, now, writeOk, class) ==
    [class |-> class, saved |-> NothingSaved,
     effect |-> router(request, RemoveHidden(page), now)]

\* requestHandler once the response is classified
Handle(request, statusCode, page, save, now, writeOk, class) ==
    IF class.tier # "none"
    THEN Stopped(class,
                 IF save
                 THEN saveErrorSample(request.url,
                                      [title |-> page.title, bodyText |-> page.bodyText],
                                      class.type, ErrorMessageOf(class, statusCode),
                                      ToString(statusCode), now, writeOk)
                 ELSE NothingSaved)
    ELSE [class |-> class, saved |-> NothingSaved,
          effect |-> router(request, RemoveHidden(page), now)]

\* requestHandler: the classification, what is saved for an error page, and
\* what the routed handler does otherwise
requestHandler(request, statusCode, page, save, now, writeOk) ==
    Handle(request, statusCode, page, save, now, writeOk, ClassifyResponse(statusCode, page))

\* the error type failedRequestHandler derives from the error message
FailureType(errorMessage) ==
    IF Includes(errorMessage, "timeout") THEN "TIMEOUT"
    ELSE IF Includes(errorMessage, "ECONNREFUSED") THEN "CONNECTION_REFUSED"
    ELSE IF Includes(errorMessage, "ENOTFOUND") THEN "DNS_ERROR"
    ELSE IF Includes(errorMessage, "certificate") THEN "SSL_ERROR"
    ELSE "REQUEST_FAILED"

\* failedRequestHandler: what is saved for a request that failed for good
failedRequestHandler(request, errorMessage, save, now, writeOk) ==
    LET html == [title |-> "Request Failed",
                 bodyText |-> "Request Failed The request to this URL failed completely. Error: "
                              \o errorMessage]
    IN  IF save
        THEN saveErrorSample(request.url, html, FailureType(errorMessage), errorMessage,
                             "N/A", now, writeOk)
        ELSE NothingSaved

\* maxRequestRetries of the crawler options
maxRequestRetries == 3

\* a crawler that retries a failed request once only
RetriesLeftOnce(request) == request.retryCount < 1

\* whether the crawler retries a request whose attempt failed
RetriesLeft(request) == request.retryCount < maxRequestRetries

(***************************************************************************)
(* The classifier on its own: every status with every short page, and the  *)
(* long pages (around the 5000 character limit) with the statuses below    *)
(* 400.                                                                    *)
(***************************************************************************)
MaxStatus == 510
StatusCodes == {200, 204, 301, 304} \cup (399..MaxStatus)

\* a string of n filler characters
RECURSIVE Pad(_)
Pad(n) ==
    IF n = 0 THEN ""
    ELSE IF n = 1 THEN "x"
    ELSE LET h == Pad(n \div 2) IN h \o h \o (IF n % 2 = 1 THEN "x" ELSE "")

SignInPage == [title |-> "Careers", bodyText |-> "Welcome back. Please sign in to continue"]

ShortPages == {
    [title |-> "Jobs at Acme", bodyText |-> "Open roles: Nurse, Engineer"],
    SignInPage,
    [title |-> "Error", bodyText |-> "Access Denied - Forbidden"],
    [title |-> "Oops", bodyText |-> "Forbidden: Page Not Found"],
    [title |-> "", bodyText |-> "Sign  In \n Required"],
    [title |-> " Page not ", bodyText |-> "found here"],
    [title |-> "Acme", bodyText |-> "This job has been filled"],
    [title |-> "Acme", bodyText |-> "Too many requests: rate limit exceeded"],
    [title |-> "Acme", bodyText |-> "Multiple users connecting from your IP, rate limit"],
    [title |-> "Scheduled MAINTENANCE", bodyText |-> "Service Unavailable"],
    [title |-> "Acme", bodyText |-> "Nothing was found, notfound"],
    [title |-> "Acme", bodyText |-> "Nothing was ever located"],
    [title |-> "401 Error", bodyText |-> "Session expired; login required"],
    [title |-> "Acme", bodyText |-> "The position is no longer available"]
}

\* "page not found" ending exactly at, and one character past, the limit
LongPages == {
    [title |-> "Acme", bodyText |-> Pad(BodyTextLimit - 15) \o " page not found"],
    [title |-> "Acme", bodyText |-> Pad(BodyTextLimit - 14) \o " page not found"],
    [title |-> "Acme", bodyText |-> Pad(BodyTextLimit) \o " forbidden"]
}

ClassifyInputs ==
    [statusCode : StatusCodes, page : ShortPages]
    \cup [statusCode : {200, 399}, page : LongPages]

EmptyStore == [n \in {} |-> NULL]

\* the result variable of a function under study, before and after the call
NotRun == [pc |-> "start"]
Done(value) == [pc |-> "done", out |-> value]

\* the history variable before any engine callback has run
NoCall == [kind |-> "none"]

InitClassify ==
    /\ arg \in ClassifyInputs
    /\ res = NotRun
    /\ queue = {} /\ seen = {} /\ finished = 0 /\ dataset = <<>>
    /\ store = EmptyStore /\ clock = 0 /\ saveErrorSamples = FALSE
    /\ runState = "idle" /\ last = NoCall /\ hist = EmptyObject

Classify ==
    /\ res.pc = "start"
    /\ res' = Done(ClassifyResponse(arg.statusCode, arg.page))
    /\ UNCHANGED <<queue, seen, finished, dataset, store, clock, saveErrorSamples,
                   runState, last, hist, arg>>

NextClassify == Classify

SpecClassify == InitClassify /\ [][NextClassify]_vars

(***************************************************************************)
(* The crawl: the request queue, the callbacks above run by the crawler,   *)
(* the dataset and the evidence directory.  What a URL answers is chosen   *)
(* by the environment at each fetch.                                       *)
(***************************************************************************)
MaxRequestsPerCrawl == 2      \* run input maxRequestsPerCrawl
MaxClock == 1                 \* how far the wall clock advances during a run
MaxFailingUrls == 1           \* how many requests are being retried at the same time

Host == "https://acme.avature.net"
StartListing == Host \o "/careers/SearchJobs"
DetailUrl == Host \o "/careers/JobDetail/Bloomberg/101"

BlankDoc == [ogTitle |-> NULL, fontValue |-> "", h1s |-> <<>>, fields |-> <<>>,
             strongs |-> <<>>, dts |-> <<>>, rows |-> <<>>, blocks |-> <<>>,
             contentText |-> "", h3s |-> <<>>, sections |-> <<>>]

\* a page with text only
TextPage(p) == [title |-> p.title, bodyText |-> p.bodyText,
                cards |-> <<>>, anchors |-> <<>>, doc |-> BlankDoc]

\* a listing: one job, twice (relative and absolute link), with its preview
\* fields; a card without a link; a next and a previous page link
ListingPage ==
    [title |-> "Jobs", bodyText |-> "1 of 1",
     cards |-> <<
        [href |-> "/careers/JobDetail/Bloomberg/101", title |-> " Bloomberg ",
         subs |-> <<[text |-> "", items |-> <<[class |-> "list-item-location", text |-> " Los Angeles "],
                                              [class |-> "list-item-ref bold", text |-> "Ref #2201"]>>]>>],
        [href |-> Host \o "/careers/JobDetail/Bloomberg/101", title |-> "Staff Nurse",
         subs |-> <<>>],
        [href |-> NULL, title |-> "Unlinked", subs |-> <<>>] >>,
     anchors |-> << [href |-> "/careers/SearchJobs?jobOffset=10", text |-> "Next >>"],
                    [href |-> "/careers/SearchJobs?jobOffset=0", text |-> "<< Prev"] >>,
     doc |-> BlankDoc]

\* the same listing behind an access-denied banner
DeniedListingPage == [ListingPage EXCEPT !.bodyText = "Access denied"]

\* a job page
DetailPage ==
    [title |-> "Nurse II - 101 - UCLA", bodyText |-> "Open role",
     cards |-> <<>>, anchors |-> <<>>, doc |-> BlankDoc]

\* a page that asks the visitor to sign in
SignInDetailPage == TextPage([title |-> "", bodyText |-> "Please sign in to continue"])

\* what the site may answer for a URL: the page of its kind, that page behind
\* an error banner or a sign-in wall, or an error status (the site's rate
\* limit on the listing, the proxy's on the job page)
CrawlResponses(url) ==
    IF JobDetailPatternTest(url)
    THEN [statusCode : {200}, page : {DetailPage, SignInDetailPage}]
         \cup [statusCode : {404, 499}, page : {DetailPage}]
    ELSE [statusCode : {200}, page : {ListingPage, DeniedListingPage}]
         \cup [statusCode : {404, 429}, page : {ListingPage}]

TransportErrors == {"request timeout", "connect ECONNREFUSED 10.0.0.7:443"}

\* start URLs labelled by getRouteLabel alone, without the LISTING default
StartRequestUnlabelled(url) ==
    [url |-> url,
     label |-> getRouteLabel(url),
     userData |-> NoUserData,
     retryCount |-> 0]

\* labeledStartUrls: getRouteLabel(url) ?? Label.LISTING
StartRequest(url) ==
    [url |-> url,
     label |-> IF getRouteLabel(url) # NULL THEN getRouteLabel(url) ELSE LISTING,
     userData |-> NoUserData,
     retryCount |-> 0]

\* the run input startUrls
StartUrls == {StartListing, DetailUrl}

NoHistory == [returns |-> 0, raises |-> 0, failed |-> 0, evidence |-> <<>>]
History(url) == IF url \in DOMAIN hist THEN hist[url] ELSE NoHistory

\* the URLs of the requests that are waiting for another attempt
FailingUrls == {r.url : r \in {q \in queue : q.retryCount > 0}}

\* the environment lets an attempt for url fail at transport level
MayFail(url) == Cardinality(FailingUrls \cup {url}) <= MaxFailingUrls

\* the request queue after the crawler adds requests: a URL it has seen is
\* not added again
Enqueue(q, known, requests) ==
    q \cup {[url |-> r.url, label |-> r.label, userData |-> r.userData, retryCount |-> 0] :
                r \in {requests[k] : k \in {j \in 1..Len(requests) :
                            /\ requests[j].url \notin known
                            /\ \A i \in 1..(j - 1) : requests[i].url # requests[j].url}}}

\* writeFileSync for each file: a file of the same name is overwritten
RECURSIVE WriteFiles(_, _)
WriteFiles(dir, files) ==
    IF files = <<>> THEN dir
    ELSE WriteFiles(Put(dir, Head(files).name, Head(files).content), Tail(files))

InitCrawl ==
    /\ saveErrorSamples \in BOOLEAN
    /\ queue = {StartRequest(url) : url \in StartUrls}
    /\ seen = StartUrls
    /\ finished = 0
    /\ dataset = <<>>
    /\ store = EmptyStore
    /\ clock = 0
    /\ runState = "running"
    /\ last = NoCall
    /\ hist = EmptyObject
    /\ arg = NULL
    /\ res = NotRun

\* the crawler fetches a queued request and runs requestHandler on the response
RequestHandler ==
    /\ runState = "running"
    /\ finished < MaxRequestsPerCrawl
    /\ \E request \in queue, writeOk \in BOOLEAN :
        \E response \in CrawlResponses(request.url) :
        \E out \in {requestHandler(request, response.statusCode, response.page,
                                  saveErrorSamples, clock, writeOk)} :
        LET h == History(request.url)
        IN  IF out.saved.threw
            THEN \* the handler raised: the crawler counts a failed attempt
                 /\ queue' = (queue \ {request})
                        \cup (IF RetriesLeft(request)
                              THEN {[request EXCEPT !.retryCount = @ + 1]} ELSE {})
                 /\ finished' = IF RetriesLeft(request) THEN finished ELSE finished + 1
                 /\ hist' = Put(hist, request.url, [h EXCEPT !.raises = @ + 1])
                 /\ last' = [kind |-> "raised", request |-> request]
                 /\ UNCHANGED <<seen, dataset, store>>
            ELSE /\ queue' = Enqueue(queue \ {request}, seen, out.effect.enq)
                 /\ seen' = seen \cup {out.effect.enq[k].url : k \in 1..Len(out.effect.enq)}
                 /\ finished' = finished + 1
                 /\ dataset' = dataset \o out.effect.emit
                 /\ store' = WriteFiles(store, out.saved.files)
                 /\ hist' = Put(hist, request.url,
                                [h EXCEPT !.returns = @ + 1,
                                          !.evidence = @ \o [k \in 1..Len(out.saved.files) |->
                                                                out.saved.files[k].content.errorType]])
                 /\ last' = [kind |-> "handled", request |-> request,
                             statusCode |-> response.statusCode, page |-> response.page,
                             class |-> out.class, files |-> out.saved.files,
                             enq |-> out.effect.enq, emit |-> out.effect.emit,
                             writeFailed |-> saveErrorSamples /\ out.class.tier # "none"
                                             /\ ~writeOk]
    /\ UNCHANGED <<clock, saveErrorSamples, runState, arg, res>>

\* an attempt fails at transport level and the crawler will retry the request
FetchError ==
    /\ runState = "running"
    /\ finished < MaxRequestsPerCrawl
    /\ \E request \in queue :
        /\ MayFail(request.url)
        /\ RetriesLeft(request)
        /\ queue' = (queue \ {request}) \cup {[request EXCEPT !.retryCount = @ + 1]}
        /\ last' = [kind |-> "retry", request |-> request]
    /\ UNCHANGED <<seen, finished, dataset, store, clock, saveErrorSamples, runState, hist,
                   arg, res>>

\* an attempt fails with no retry left: the crawler runs failedRequestHandler
FailedRequestHandler ==
    /\ runState = "running"
    /\ finished < MaxRequestsPerCrawl
    /\ \E request \in queue, errorMessage \in TransportErrors, writeOk \in BOOLEAN :
        \E saved \in {failedRequestHandler(request, errorMessage, saveErrorSamples, clock, writeOk)} :
        LET h == History(request.url)
        IN  /\ MayFail(request.url)
            /\ ~RetriesLeft(request)
            /\ queue' = queue \ {request}
            /\ finished' = finished + 1
            /\ store' = WriteFiles(store, saved.files)
            /\ hist' = Put(hist, request.url,
                           [h EXCEPT !.failed = @ + 1,
                                     !.evidence = @ \o [k \in 1..Len(saved.files) |->
                                                           saved.files[k].content.errorType]])
            /\ last' = [kind |-> "failed", request |-> request, errorMessage |-> errorMessage,
                        files |-> saved.files, raised |-> saved.threw,
                        writeFailed |-> saveErrorSamples /\ ~writeOk]
    /\ UNCHANGED <<seen, dataset, clock, saveErrorSamples, runState, arg, res>>

\* time passes
Tick ==
    /\ runState = "running"
    /\ clock < MaxClock
    /\ clock' = clock + 1
    /\ UNCHANGED <<queue, seen, finished, dataset, store, saveErrorSamples, runState,
                   last, hist, arg, res>>

\* crawler.run() resolves: the queue is drained or the page budget is spent
Finish ==
    /\ runState = "running"
    /\ (queue = {} \/ finished >= MaxRequestsPerCrawl)
    /\ runState' = "finished"
    /\ UNCHANGED <<queue, seen, finished, dataset, store, clock, saveErrorSamples,
                   last, hist, arg, res>>

Next == RequestHandler \/ FetchError \/ FailedRequestHandler \/ Tick \/ Finish

Spec == InitCrawl /\ [][Next]_vars

\* the crawler has a request to take up: ENABLED of a step that ends a request,
\* which needs a queued request and budget only (every URL answers something)
CanProcess == runState = "running" /\ finished < MaxRequestsPerCrawl /\ queue # {}

\* a step that ends a request: requestHandler returned, or the request failed
\* for good
Processed == finished' = finished + 1

\* the crawler keeps taking up queued requests while the budget lasts (weak
\* fairness of the steps that end a request, with ENABLED written out), and
\* crawler.run() resolves once nothing is left to do
SpecFair ==
    Spec /\ WF_vars(Finish) /\ ([]<>~CanProcess \/ []<><<Processed>>_vars)

(***************************************************************************)
(* requestHandler on its own: one request of each label (and one without a *)
(* label the router knows), every kind of answer.                          *)
(***************************************************************************)
\* a job page that says the job is gone
ClosedJobPage == [DetailPage EXCEPT !.bodyText = "This job has been filled"]

HandleRequests ==
    {StartRequest(StartListing), StartRequest(DetailUrl),
     [url |-> Host \o "/careers/Home", label |-> NULL, userData |-> NoUserData,
      retryCount |-> 0]}
HandleStatuses == {200, 302, 403, 404, 500}
\* listings without a job link: no card at all, and one card without a link
EmptyListingPage ==
    [ListingPage EXCEPT !.bodyText = "0 results", !.cards = <<>>, !.anchors = <<>>]
UnlinkedListingPage == [ListingPage EXCEPT !.cards = <<ListingPage.cards[3]>>]

HandlePages ==
    {ListingPage, DeniedListingPage, DetailPage, SignInDetailPage, ClosedJobPage,
     EmptyListingPage, UnlinkedListingPage}

InitHandle ==
    /\ arg \in [request : HandleRequests, statusCode : HandleStatuses, page : HandlePages,
                save : BOOLEAN, writeOk : BOOLEAN]
    /\ res = NotRun
    /\ queue = {} /\ seen = {} /\ finished = 0 /\ dataset = <<>>
    /\ store = EmptyStore /\ clock = 0 /\ saveErrorSamples = FALSE
    /\ runState = "idle" /\ last = NoCall /\ hist = EmptyObject

HandleResponse ==
    /\ res.pc = "start"
    /\ res' = Done(requestHandler(arg.request, arg.statusCode, arg.page, arg.save, clock,
                                  arg.writeOk))
    /\ UNCHANGED <<queue, seen, finished, dataset, store, clock, saveErrorSamples,
                   runState, last, hist, arg>>

NextHandle == HandleResponse

SpecHandle == InitHandle /\ [][NextHandle]_vars

(***************************************************************************)
(* listingHandler on its own: every sequence of up to MaxCards job cards   *)
(* drawn from five cards, two of which link to the same job.               *)
(***************************************************************************)
MaxCards == 4

CardPool ==
    {ListingPage.cards[1], ListingPage.cards[2], ListingPage.cards[3],
     [href |-> "/careers/JobDetail/Staff-Nurse/102", title |-> "Staff Nurse",
      subs |-> <<[text |-> " Full time ", items |-> <<>>]>>],
     [href |-> "careers/JobDetail/Clerk/103", title |-> "Clerk", subs |-> <<>>]}

CardLists == UNION {[1..n -> CardPool] : n \in 0..MaxCards}

InitListing ==
    /\ arg \in {[url |-> StartListing, page |-> [ListingPage EXCEPT !.cards = cards]] :
                    cards \in CardLists}
    /\ res = NotRun
    /\ queue = {} /\ seen = {} /\ finished = 0 /\ dataset = <<>>
    /\ store = EmptyStore /\ clock = 0 /\ saveErrorSamples = FALSE
    /\ runState = "idle" /\ last = NoCall /\ hist = EmptyObject

ListCards ==
    /\ res.pc = "start"
    /\ res' = Done(listingHandler(arg.url, arg.page))
    /\ UNCHANGED <<queue, seen, finished, dataset, store, clock, saveErrorSamples,
                   runState, last, hist, arg>>

NextListing == ListCards

SpecListing == InitListing /\ [][NextListing]_vars

(***************************************************************************)
(* jobDetailHandler on its own: two job URLs, pages that offer a title     *)
(* through each strategy of getJobTitle, and the hints a card can carry.   *)
(***************************************************************************)
NurseUrl == Host \o "/careers/JobDetail/Staff-Nurse/102"

\* a job link without a numeric path segment
SlugOnlyUrl == Host \o "/careers/JobDetail/Staff-Nurse-A12"

\* a job page whose fields all differ from what a card would say
RichDetailPage ==
    [title |-> "Nurse II - 102 - UCLA",
     bodyText |-> "Open role Location: Boston Ref # 7788",
     cards |-> <<>>, anchors |-> <<>>,
     doc |-> [BlankDoc EXCEPT
                !.fields = <<[label |-> "Location", value |-> "Boston"],
                             [label |-> "Employment Type", value |-> "Part time"],
                             [label |-> "Duration", value |-> "6 months"],
                             [label |-> "Department", value |-> "Surgery"],
                             [label |-> "Entity", value |-> "Acme West"],
                             [label |-> "Job #", value |-> "9001"]>>]]

\* pages whose only title candidate is a company name, one per strategy
CompanyPage == [TextPage([title |-> "", bodyText |-> ""]) EXCEPT !.doc.ogTitle = "Bloomberg"]
SplitTitlePage == TextPage([title |-> "Avature - 101 - Jobs", bodyText |-> ""])
FontPage == [TextPage([title |-> "", bodyText |-> ""]) EXCEPT !.doc.fontValue = " Bloomberg "]
HeadingPage ==
    [TextPage([title |-> "", bodyText |-> ""]) EXCEPT
        !.doc.h1s = <<[text |-> "UCLA Health", hidden |-> FALSE, srOnly |-> FALSE,
                       sel |-> {1, 7}]>>]

\* a job page whose "Job #" field repeats the id of NurseUrl
DuplicateRefPage ==
    [TextPage([title |-> "", bodyText |-> ""]) EXCEPT
        !.doc.fields = <<[label |-> "Job #", value |-> " 102 "]>>]

\* a job page whose text is in sections: below <h3> headings and in a
\* collapsible section
SectionedPage ==
    [TextPage([title |-> "", bodyText |-> ""]) EXCEPT
        !.doc.contentText = " Staff Nurse Job Description Provide bedside care. ",
        !.doc.h3s = <<[heading |-> " Job Description ",
                       parts |-> <<" Provide bedside care to patients. ", "",
                                   "Press space or enter to expand">>],
                      [heading |-> "Qualifications", parts |-> <<"RN licence">>],
                      [heading |-> "Requirements",
                       parts |-> <<"Two years of experience", "BLS certificate">>]>>,
        !.doc.sections = <<[heading |-> "Primary Duties",
                            content |-> " Monitor patients and record vital signs. "],
                           [heading |-> "About us",
                            content |-> "A hospital."]>>]

\* a job page whose text is in no section: the main region holds it all
PlainTextPage ==
    [TextPage([title |-> "", bodyText |-> ""]) EXCEPT
        !.doc.contentText =
            " Staff Nurse. Provide bedside care to patients on the surgical ward, "
            \o "monitor and record vital signs, and work with the attending physicians. ",
        !.doc.h3s = <<[heading |-> "How to apply", parts |-> <<"Send us your application today.">>]>>]

\* n copies of s
RECURSIVE Repeat(_, _)
Repeat(s, n) == IF n = 0 THEN "" ELSE s \o Repeat(s, n - 1)

\* a job page whose <title> holds a whole paragraph before the job id
LongTitlePage ==
    TextPage([title |-> Repeat("Senior Staff Nurse for the surgical ward, ", 5) \o "- 101 - UCLA",
              bodyText |-> ""])

\* a job page whose Location field block holds a whole paragraph, and whose
\* definition list holds the location
LongValuePage ==
    [TextPage([title |-> "", bodyText |-> ""]) EXCEPT
        !.doc.fields = <<[label |-> "Location",
                          value |-> Repeat("Boston and the greater Boston area, ", 14)]>>,
        !.doc.dts = <<[dt |-> "Location", dd |-> " Boston "]>>]

DetailPages ==
    {RichDetailPage, CompanyPage, SplitTitlePage, FontPage, HeadingPage,
     TextPage([title |-> "", bodyText |-> ""]), DuplicateRefPage, SectionedPage,
     PlainTextPage, LongTitlePage, LongValuePage}

FullHints ==
    [location |-> "Los Angeles", workingTime |-> "Full time", contractType |-> "Permanent",
     department |-> "Nursing", legalEntity |-> "Acme Health", ref |-> "Ref #2201"]

HintSets ==
    {EmptyObject,
     FullHints,
     [location |-> "Los Angeles"],
     [locationBuiltIn |-> "Remote", ref |-> "101"],
     [ref |-> "ref #"],
     [ref |-> "REQ-7"],
     [location |-> "", department |-> "Nursing"]}

DetailInputs ==
    [url : {DetailUrl, NurseUrl, SlugOnlyUrl}, page : DetailPages,
     userData : {NoUserData}
                \cup {CardUserData(title, subtitles) :
                          title \in {"", "Staff Nurse", "Bloomberg"}, subtitles \in HintSets}]

InitDetail ==
    /\ arg \in DetailInputs
    /\ res = NotRun
    /\ queue = {} /\ seen = {} /\ finished = 0 /\ dataset = <<>>
    /\ store = EmptyStore /\ clock = 0 /\ saveErrorSamples = FALSE
    /\ runState = "idle" /\ last = NoCall /\ hist = EmptyObject

ExtractDetail ==
    /\ res.pc = "start"
    /\ res' = Done(jobDetailHandler(arg.url, arg.page, arg.userData, clock))
    /\ UNCHANGED <<queue, seen, finished, dataset, store, clock, saveErrorSamples,
                   runState, last, hist, arg>>

NextDetail == ExtractDetail

SpecDetail == InitDetail /\ [][NextDetail]_vars

(***************************************************************************)
(* parseDate on its own: every date of a small calendar written in each    *)
(* of the formats the function reads, and texts that are no date it reads. *)
(***************************************************************************)

ShortMonthNames ==
    <<"Jan", "Feb", "Mar", "Apr", "May", "Jun",
      "Jul", "Aug", "Sep", "Oct", "Nov", "Dec">>
ShortMonthCapitals ==
    <<"JAN", "FEB", "MAR", "APR", "MAY", "JUN",
      "JUL", "AUG", "SEP", "OCT", "NOV", "DEC">>
LongMonthNames ==
    <<"January", "February", "March", "April", "May", "June",
      "July", "August", "September", "October", "November", "December">>

DateYears == {2025, 2026}
DateDays == {2, 28}

\* the date y-m-d in ISO form
IsoDate(y, m, d) ==
    ToString(y) \o "-" \o (IF m < 10 THEN "0" ELSE "") \o ToString(m)
                \o "-" \o (IF d < 10 THEN "0" ELSE "") \o ToString(d)

\* the ways the date y-m-d is written
DateTexts(y, m, d) ==
    { IsoDate(y, m, d),
      ToString(m) \o "/" \o ToString(d) \o "/" \o ToString(y),
      SubSeq(IsoDate(y, m, d), 6, 7) \o "/" \o SubSeq(IsoDate(y, m, d), 9, 10)
          \o "/" \o ToString(y),
      ToString(d) \o "-" \o ShortMonthNames[m] \o "-" \o ToString(y),
      SubSeq(IsoDate(y, m, d), 9, 10) \o "-" \o ShortMonthNames[m] \o "-" \o ToString(y),
      SubSeq(IsoDate(y, m, d), 9, 10) \o "-" \o ShortMonthCapitals[m] \o "-" \o ToString(y),
      ToString(d) \o "-" \o ShortMonths[m] \o "-" \o ToString(y),
      LongMonthNames[m] \o " " \o ToString(d) \o ", " \o ToString(y),
      LongMonths[m] \o " " \o SubSeq(IsoDate(y, m, d), 9, 10) \o ", " \o ToString(y) }

\* texts that carry no date in a format parseDate converts, or more than a date
OtherDateTexts ==
    { NULL, "", " ", "Posted today", "Sept 5, 2025", "31-Foo-2025", "10/28/25",
      "2025-10-28T08:30:00Z", "Posted 10/28/2025 by HR", "Tuesday, October 28, 2025",
      "5-Xyz-2025 or March 3, 2025", "Constructor 5, 2025", "28.10.2025",
      "October 28th, 2025" }

DateInputs ==
    UNION {{[text |-> t, date |-> IsoDate(y, m, d)] : t \in DateTexts(y, m, d)} :
              y \in DateYears, m \in 1..12, d \in DateDays}
    \cup {[text |-> t, date |-> NULL] : t \in OtherDateTexts}

InitDate ==
    /\ arg \in DateInputs
    /\ res = NotRun
    /\ queue = {} /\ seen = {} /\ finished = 0 /\ dataset = <<>>
    /\ store = EmptyStore /\ clock = 0 /\ saveErrorSamples = FALSE
    /\ runState = "idle" /\ last = NoCall /\ hist = EmptyObject

\* parseDate applied to the text, and to its own result
ParseDate ==
    /\ res.pc = "start"
    /\ \E out \in {parseDate(arg.text)} :
           res' = Done([date |-> out, again |-> parseDate(out)])
    /\ UNCHANGED <<queue, seen, finished, dataset, store, clock, saveErrorSamples,
                   runState, last, hist, arg>>

NextDate == ParseDate

SpecDate == InitDate /\ [][NextDate]_vars

(***************************************************************************)
(* parseSalary on its own: ranges written with two amounts in either       *)
(* order, single amounts, and salary texts without any digit.              *)
(***************************************************************************)

AmountTexts == {"25", "17.50", "50,000", "90,000", "100000"}

RangeTexts ==
    {dollar \o a \o sep \o dollar \o b \o suffix :
        a \in AmountTexts, b \in AmountTexts, dollar \in {"", "$"},
        sep \in {" - ", "-", " to "}, suffix \in {"", " per year"}}

SingleTexts ==
    {dollar \o a \o suffix :
        a \in AmountTexts, dollar \in {"", "$"},
        suffix \in {"", " per hour", " a month", "/week"}}

DigitFreeTexts ==
    { NULL, "", "Competitive", "Competitive, DOE", "Negotiable", "DOE - negotiable",
      "Depends on experience", "Paid hourly, weekly payroll", "$$$" }

SalaryInputs ==
    {[text |-> t, kind |-> "range"] : t \in RangeTexts}
    \cup {[text |-> t, kind |-> "single"] : t \in SingleTexts}
    \cup {[text |-> t, kind |-> "none"] : t \in DigitFreeTexts}

InitSalary ==
    /\ arg \in SalaryInputs
    /\ res = NotRun
    /\ queue = {} /\ seen = {} /\ finished = 0 /\ dataset = <<>>
    /\ store = EmptyStore /\ clock = 0 /\ saveErrorSamples = FALSE
    /\ runState = "idle" /\ last = NoCall /\ hist = EmptyObject

ParseSalary ==
    /\ res.pc = "start"
    /\ res' = Done(parseSalary(arg.text))
    /\ UNCHANGED <<queue, seen, finished, dataset, store, clock, saveErrorSamples,
                   runState, last, hist, arg>>

NextSalary == ParseSalary

SpecSalary == InitSalary /\ [][NextSalary]_vars

(***************************************************************************)
(* getRouteLabel on its own: URLs whose path, query string or fragment     *)
(* holds a listing or a job-detail shape, in either letter case.           *)
(***************************************************************************)

RoutePaths ==
    { "", "/careers", "/careers/Home", "/careers/Login",
      "/careers/SearchJobs", "/careers/searchjobs", "/careers/SearchJobs/Nursing",
      "/careers/JobDetail/Staff-Nurse/102", "/careers/jobdetail/staff-nurse/102",
      "/careers/JobDetail/Staff-Nurse-A12", "/careers/JobDetail//102",
      "/careers/JobDetail/Staff-Nurse/A12", "/JobDetail/Staff-Nurse/102",
      "/careers/SearchJobs/careers/JobDetail/Staff-Nurse/102" }

RouteSuffixes ==
    { "", "?jobOffset=10", "?next=/careers/SearchJobs", "#/careers/SearchJobs",
      "?back=/careers/JobDetail/Staff-Nurse/102", "#/careers/JobDetail/Staff-Nurse/102" }

RouteUrls == {Host \o path \o suffix : path \in RoutePaths, suffix \in RouteSuffixes}

InitRoute ==
    /\ arg \in [url : RouteUrls]
    /\ res = NotRun
    /\ queue = {} /\ seen = {} /\ finished = 0 /\ dataset = <<>>
    /\ store = EmptyStore /\ clock = 0 /\ saveErrorSamples = FALSE
    /\ runState = "idle" /\ last = NoCall /\ hist = EmptyObject

Route ==
    /\ res.pc = "start"
    /\ res' = Done(getRouteLabel(arg.url))
    /\ UNCHANGED <<queue, seen, finished, dataset, store, clock, saveErrorSamples,
                   runState, last, hist, arg>>

NextRoute == Route

SpecRoute == InitRoute /\ [][NextRoute]_vars

(***************************************************************************)
(* The labelling of the start URLs followed by the router: each URL of     *)
(* the routing set as a start URL, answered by a listing, an empty listing *)
(* or a job page.                                                          *)
(***************************************************************************)

StartPages == {ListingPage, EmptyListingPage, DetailPage}

InitStart ==
    /\ arg \in [url : RouteUrls, page : StartPages]
    /\ res = NotRun
    /\ queue = {} /\ seen = {} /\ finished = 0 /\ dataset = <<>>
    /\ store = EmptyStore /\ clock = 0 /\ saveErrorSamples = FALSE
    /\ runState = "idle" /\ last = NoCall /\ hist = EmptyObject

\* the start URL becomes a request, and the router runs the handler of its label
StartTask ==
    /\ res.pc = "start"
    /\ \E request \in {StartRequest(arg.url)} :
           res' = Done([request |-> request, effect |-> router(request, arg.page, clock)])
    /\ UNCHANGED <<queue, seen, finished, dataset, store, clock, saveErrorSamples,
                   runState, last, hist, arg>>

NextStart == StartTask

SpecStart == InitStart /\ [][NextStart]_vars

(***************************************************************************)
(* Handlers running concurrently: MaxInFlight invocations, each on its own *)
(* task, interleaved at their awaits (addRequests, enqueueLinks, pushData).*)
(* arg[i] is the task of invocation i; res[i] holds its position and what  *)
(* it has handed to the request queue (enq) and to the dataset (emit) so   *)
(* far.  The request queue, the dataset and the clock are shared.          *)
(***************************************************************************)

MaxInFlight == 2              \* how many handlers run at the same time

\* the second page of the listing: the job of the first page again, one more
\* job, and a link back to the first page
SecondListingPage ==
    [title |-> "Jobs", bodyText |-> "2 of 2",
     cards |-> <<
        [href |-> "/careers/JobDetail/Bloomberg/101", title |-> "Bloomberg", subs |-> <<>>],
        [href |-> "/careers/JobDetail/Staff-Nurse/102", title |-> "Staff Nurse",
         subs |-> <<[text |-> " Boston ", items |-> <<>>]>>] >>,
     anchors |-> << [href |-> "/careers/SearchJobs", text |-> "1"],
                    [href |-> "/careers/SearchJobs?jobOffset=10", text |-> "2"] >>,
     doc |-> BlankDoc]

OverlapTasks ==
    { [request |-> Request(StartListing, LISTING, NoUserData), page |-> ListingPage],
      [request |-> Request(StartListing \o "?jobOffset=10", LISTING, NoUserData),
       page |-> SecondListingPage],
      [request |-> Request(DetailUrl, JOB_DETAIL, CardUserData("Bloomberg", FullHints)),
       page |-> DetailPage] }

\* listingHandler up to its first await: the job links handed to addRequests
JobLinksUnseen(jobLinks, seenBefore) ==
    SelectSeq(jobLinks, LAMBDA r : r.url \notin seenBefore)
jobLinksOf(url, page, known) ==
    JobLinksUnseen(JobLinksFrom(page.cards, 1, getBaseUrl(url), <<>>), NewSeenUrls(known))

\* listingHandler after its first await: the links handed to enqueueLinks
paginationLinksOf(url, page) ==
    LabelledRequests(PaginationFrom(PaginationAnchors(page), 1, getBaseUrl(url), <<>>), LISTING)

InFlight(pc) == [pc |-> pc, enq |-> <<>>, emit |-> <<>>]

InitOverlap ==
    /\ arg \in [1..MaxInFlight -> OverlapTasks]
    /\ res = [i \in 1..MaxInFlight |-> InFlight("start")]
    /\ queue = {} /\ seen = {} /\ finished = 0 /\ dataset = <<>>
    /\ store = EmptyStore /\ clock = 0 /\ saveErrorSamples = FALSE
    /\ runState = "running" /\ last = NoCall /\ hist = EmptyObject

\* listing.handler.ts lines 12-75
AddJobLinks(i) ==
    /\ res[i].pc = "start"
    /\ arg[i].request.label = LISTING
    /\ \E jobLinks \in {jobLinksOf(arg[i].request.url, arg[i].page, seen)} :
        /\ res' = [res EXCEPT ![i] = [pc |-> "jobsAdded", enq |-> jobLinks, emit |-> <<>>]]
        /\ queue' = Enqueue(queue, seen, jobLinks)
        /\ seen' = seen \cup {jobLinks[k].url : k \in 1..Len(jobLinks)}
    /\ UNCHANGED <<finished, dataset, store, clock, saveErrorSamples, runState, last, hist, arg>>

\* listing.handler.ts lines 77-111
EnqueuePagination(i) ==
    /\ res[i].pc = "jobsAdded"
    /\ \E links \in {paginationLinksOf(arg[i].request.url, arg[i].page)} :
        /\ res' = [res EXCEPT ![i] = [pc |-> "done", enq |-> res[i].enq \o links, emit |-> <<>>]]
        /\ queue' = Enqueue(queue, seen, links)
        /\ seen' = seen \cup {links[k].url : k \in 1..Len(links)}
    /\ finished' = finished + 1
    /\ UNCHANGED <<dataset, store, clock, saveErrorSamples, runState, last, hist, arg>>

\* jobDetailHandler, to the end of its pushData
PushJob(i) ==
    /\ res[i].pc = "start"
    /\ arg[i].request.label = JOB_DETAIL
    /\ \E out \in {jobDetailHandler(arg[i].request.url, arg[i].page,
                                    arg[i].request.userData, clock)} :
        /\ res' = [res EXCEPT ![i] = [pc |-> "done", enq |-> out.enq, emit |-> out.emit]]
        /\ dataset' = dataset \o out.emit
    /\ finished' = finished + 1
    /\ UNCHANGED <<queue, seen, store, clock, saveErrorSamples, runState, last, hist, arg>>

NextOverlap ==
    \/ \E i \in 1..MaxInFlight : AddJobLinks(i)
    \/ \E i \in 1..MaxInFlight : EnqueuePagination(i)
    \/ \E i \in 1..MaxInFlight : PushJob(i)
    \/ Tick

SpecOverlap == InitOverlap /\ [][NextOverlap]_vars

(***************************************************************************)
(* The pagination scan of listingHandler: every sequence of up to          *)
(* MaxAnchors links drawn from next, numbered, previous, back, empty and   *)
(* anchor-only links, below the cards of the listing.                      *)
(***************************************************************************)

MaxAnchors == 3

AnchorPool ==
    { [href |-> "/careers/SearchJobs?jobOffset=10", text |-> "Next >>"],
      [href |-> Host \o "/careers/SearchJobs?jobOffset=10", text |-> " 2 "],
      [href |-> "careers/SearchJobs?pageNumber=3", text |-> "3"],
      [href |-> "/careers/SearchJobs?jobOffset=0", text |-> "<< 1"],
      [href |-> "/careers/SearchJobs?jobOffset=0", text |-> " PREVIOUS "],
      [href |-> "/careers/SearchJobs", text |-> "Back to results"],
      [href |-> "#", text |-> "2"],
      [href |-> "", text |-> "SearchJobs"],
      [href |-> NULL, text |-> "Next"],
      [href |-> "/careers/Login", text |-> "Sign in"] }

AnchorLists == UNION {[1..n -> AnchorPool] : n \in 0..MaxAnchors}

InitPagination ==
    /\ arg \in {[url |-> StartListing, page |-> [ListingPage EXCEPT !.anchors = anchors]] :
                    anchors \in AnchorLists}
    /\ res = NotRun
    /\ queue = {} /\ seen = {} /\ finished = 0 /\ dataset = <<>>
    /\ store = EmptyStore /\ clock = 0 /\ saveErrorSamples = FALSE
    /\ runState = "idle" /\ last = NoCall /\ hist = EmptyObject

ListPages ==
    /\ res.pc = "start"
    /\ res' = Done(listingHandler(arg.url, arg.page))
    /\ UNCHANGED <<queue, seen, finished, dataset, store, clock, saveErrorSamples,
                   runState, last, hist, arg>>

NextPagination == ListPages

SpecPagination == InitPagination /\ [][NextPagination]_vars

(***************************************************************************)
(* The links listingHandler and defaultHandler enqueue from one page: the  *)
(* cards of the listing, or a card whose link has no job number, above     *)
(* every pair of links of the pagination pool and two more.                *)
(***************************************************************************)

LinkCards ==
    { ListingPage.cards,
      <<[href |-> "/careers/JobDetail/Staff-Nurse-A12", title |-> "Staff Nurse", subs |-> <<>>],
        ListingPage.cards[1]>> }

LinkAnchorPool ==
    AnchorPool
    \cup { [href |-> "/careers/Search?jobOffset=20", text |-> "3"],
           [href |-> "/JobDetail/Clerk/103", text |-> "Clerk"] }

LinkPages ==
    {[ListingPage EXCEPT !.cards = cards, !.anchors = <<a, b>>] :
        cards \in LinkCards, a \in LinkAnchorPool, b \in LinkAnchorPool}

InitLinks ==
    /\ arg \in [url : {StartListing}, page : LinkPages]
    /\ res = NotRun
    /\ queue = {} /\ seen = {} /\ finished = 0 /\ dataset = <<>>
    /\ store = EmptyStore /\ clock = 0 /\ saveErrorSamples = FALSE
    /\ runState = "idle" /\ last = NoCall /\ hist = EmptyObject

\* the page handled as a listing
ListLinks ==
    /\ res.pc = "start"
    /\ res' = Done([handler |-> LISTING, enq |-> listingHandler(arg.url, arg.page).enq])
    /\ UNCHANGED <<queue, seen, finished, dataset, store, clock, saveErrorSamples,
                   runState, last, hist, arg>>

\* the page handled by the default handler
ScanLinks ==
    /\ res.pc = "start"
    /\ res' = Done([handler |-> NULL, enq |-> defaultHandler(arg.url, arg.page).enq])
    /\ UNCHANGED <<queue, seen, finished, dataset, store, clock, saveErrorSamples,
                   runState, last, hist, arg>>

NextLinks == ListLinks \/ ScanLinks

SpecLinks == InitLinks /\ [][NextLinks]_vars

(***************************************************************************)
(* getFieldByLabels on its own: a job page that shows the location under   *)
(* the label Location or City, or not at all, in each of the five places   *)
(* the extractor looks at, and the label lists it may be asked for.        *)
(***************************************************************************)

\* the town a page shows for a label in the place that method looks at
TownShown(labelText, method) ==
    (IF labelText = "Location" THEN "Boston" ELSE "Austin") \o " " \o ToString(method)

FieldElement(labelText) ==
    [label |-> labelText \o ":", value |-> " " \o TownShown(labelText, 0) \o " "]
StrongElement(labelText) ==
    [strong |-> labelText, full |-> labelText \o ": " \o TownShown(labelText, 1)]
DtElement(labelText) == [dt |-> labelText, dd |-> TownShown(labelText, 2)]
RowElement(labelText) == [th |-> labelText, td |-> TownShown(labelText, 3)]
BlockElement(labelText) == [text |-> labelText \o ":", next |-> TownShown(labelText, 4)]

ShownLabels == {"Location", "City"}

FieldDocs ==
    {[BlankDoc EXCEPT !.fields = f, !.strongs = s, !.dts = d, !.rows = r, !.blocks = b] :
        f \in {<<>>} \cup {<<FieldElement(l)>> : l \in ShownLabels},
        s \in {<<>>} \cup {<<StrongElement(l)>> : l \in ShownLabels},
        d \in {<<>>} \cup {<<DtElement(l)>> : l \in ShownLabels},
        r \in {<<>>} \cup {<<RowElement(l)>> : l \in ShownLabels},
        b \in {<<>>} \cup {<<BlockElement(l)>> : l \in ShownLabels}}

FieldLabelLists == {<<"Location", "City">>, <<"City", "Location">>, <<"City">>}

InitField ==
    /\ arg \in [doc : FieldDocs, labels : FieldLabelLists]
    /\ res = NotRun
    /\ queue = {} /\ seen = {} /\ finished = 0 /\ dataset = <<>>
    /\ store = EmptyStore /\ clock = 0 /\ saveErrorSamples = FALSE
    /\ runState = "idle" /\ last = NoCall /\ hist = EmptyObject

GetField ==
    /\ res.pc = "start"
    /\ res' = Done(getFieldByLabels(arg.doc, arg.labels))
    /\ UNCHANGED <<queue, seen, finished, dataset, store, clock, saveErrorSamples,
                   runState, last, hist, arg>>

NextField == GetField

SpecField == InitField /\ [][NextField]_vars

(***************************************************************************)
(* The subdomain checker: processWithConcurrency over a list of            *)
(* subdomains.  Each check is a fetch that answers, is rate limited or     *)
(* times out; the pending setTimeout(startNext) calls are counted.         *)
(***************************************************************************)

MAX_CONCURRENCY == 5
MAX_RETRIES == 3
MaxSubdomains == 6            \* the longest list of subdomains

SubdomainName(i) == "tenant" \o ToString(i) \o ".avature.net"

SubdomainLists == {[i \in 1..n |-> SubdomainName(i)] : n \in 0..MaxSubdomains}

\* what one fetch of checkSubdomain may end with: the second tenant may be
\* rate limited and the last tenant may time out
FetchOutcomes(subdomain) ==
    {"answer"}
    \cup (IF subdomain = SubdomainName(2) THEN {"rate limited"} ELSE {})
    \cup (IF subdomain = SubdomainName(MaxSubdomains) THEN {"timeout"} ELSE {})

\* one pass of the for loop of checkSubdomain, after the fetch of that
\* attempt ended: whether it waits RETRY_DELAY and continues with the next
\* attempt, and the result it returns otherwise
checkSubdomain(subdomain, attempt, outcome) ==
    [continue |-> outcome # "answer" /\ attempt < MAX_RETRIES,
     result |-> [subdomain |-> subdomain,
                 status |-> IF outcome = "answer" THEN "working"
                            ELSE IF outcome = "rate limited" THEN "blocked"
                            ELSE "error"]]

NotStarted == [phase |-> "idle", attempt |-> 0, calls |-> 0]

\* resolve(results): settling a settled promise again changes nothing
Resolve(s) == [s EXCEPT !.resolved = TRUE]

\* the while loop of startNext with no test of running
RECURSIVE StartAll(_, _)
StartAll(s, subdomains) ==
    IF s.nextIndex < Len(subdomains)
    THEN StartAll([s EXCEPT !.nextIndex = @ + 1,
                            !.running = @ + 1,
                            !.checks[s.nextIndex] =
                                [phase |-> "fetching", attempt |-> 1, calls |-> @.calls + 1]],
                  subdomains)
    ELSE s

\* the while loop of startNext: processOne is called for the next subdomains
\* while fewer than MAX_CONCURRENCY are running
RECURSIVE StartLoop(_, _)
StartLoop(s, subdomains) ==
    IF s.running < MAX_CONCURRENCY /\ s.nextIndex < Len(subdomains)
    THEN StartLoop([s EXCEPT !.nextIndex = @ + 1,
                             !.running = @ + 1,
                             !.checks[s.nextIndex] =
                                 [phase |-> "fetching", attempt |-> 1, calls |-> @.calls + 1]],
                   subdomains)
    ELSE s

\* the test after the loop
ResolveIfIdle(s, subdomains) ==
    IF s.running = 0 /\ s.nextIndex >= Len(subdomains) THEN Resolve(s) ELSE s

startNext(s, subdomains) == ResolveIfIdle(StartLoop(s, subdomains), subdomains)

\* the .finally callback without its setTimeout(startNext, ...)
finallyWithoutTimer(s, index, subdomains) ==
    IF s.nextIndex >= Len(subdomains) /\ s.running - 1 = 0
    THEN Resolve([s EXCEPT !.running = @ - 1, !.checks[index].phase = "done"])
    ELSE [s EXCEPT !.running = @ - 1, !.checks[index].phase = "done"]

\* the .finally callback of one processOne
finally(s, index, subdomains) ==
    IF s.nextIndex < Len(subdomains)
    THEN [s EXCEPT !.running = @ - 1, !.checks[index].phase = "done", !.timers = @ + 1]
    ELSE IF s.running - 1 = 0
    THEN Resolve([s EXCEPT !.running = @ - 1, !.checks[index].phase = "done"])
    ELSE [s EXCEPT !.running = @ - 1, !.checks[index].phase = "done"]

InitProcess ==
    /\ arg \in SubdomainLists
    /\ res = NotRun
    /\ queue = {} /\ seen = {} /\ finished = 0 /\ dataset = <<>>
    /\ store = EmptyStore /\ clock = 0 /\ saveErrorSamples = FALSE
    /\ runState = "idle" /\ last = NoCall /\ hist = EmptyObject

\* processWithConcurrency(subdomains) up to the return of its promise
processWithConcurrency ==
    /\ res.pc = "start"
    /\ res' = [pc |-> "called",
               out |-> startNext([nextIndex |-> 0, running |-> 0, completed |-> 0,
                                  timers |-> 0, resolved |-> FALSE,
                                  results |-> EmptyObject,
                                  checks |-> [i \in 0..(Len(arg) - 1) |-> NotStarted]],
                                 arg)]
    /\ UNCHANGED <<queue, seen, finished, dataset, store, clock, saveErrorSamples,
                   runState, last, hist, arg>>

\* a fetch of a running check ends and checkSubdomain tries again
FetchRetried ==
    /\ res.pc = "called"
    /\ \E index \in DOMAIN res.out.checks :
        \E outcome \in FetchOutcomes(arg[index + 1]) :
        /\ res.out.checks[index].phase = "fetching"
        /\ checkSubdomain(arg[index + 1], res.out.checks[index].attempt, outcome).continue
        /\ res' = [res EXCEPT !.out.checks[index].attempt = @ + 1]
    /\ UNCHANGED <<queue, seen, finished, dataset, store, clock, saveErrorSamples,
                   runState, last, hist, arg>>

\* a fetch of a running check ends, checkSubdomain returns and processOne
\* stores the result
processOne ==
    /\ res.pc = "called"
    /\ \E index \in DOMAIN res.out.checks :
        \E outcome \in FetchOutcomes(arg[index + 1]) :
        \E check \in {checkSubdomain(arg[index + 1], res.out.checks[index].attempt, outcome)} :
        /\ res.out.checks[index].phase = "fetching"
        /\ ~check.continue
        /\ res' = [res EXCEPT !.out.completed = @ + 1,
                              !.out.results = Put(@, index, check.result),
                              !.out.checks[index].phase = "stored"]
    /\ UNCHANGED <<queue, seen, finished, dataset, store, clock, saveErrorSamples,
                   runState, last, hist, arg>>

\* the .finally callback of a processOne that has stored its result
ProcessOneSettled ==
    /\ res.pc = "called"
    /\ \E index \in DOMAIN res.out.checks :
        /\ res.out.checks[index].phase = "stored"
        /\ res' = [res EXCEPT !.out = finally(res.out, index, arg)]
    /\ UNCHANGED <<queue, seen, finished, dataset, store, clock, saveErrorSamples,
                   runState, last, hist, arg>>

\* a timer set by a .finally callback fires: startNext runs
TimerFires ==
    /\ res.pc = "called"
    /\ res.out.timers > 0
    /\ res' = [res EXCEPT !.out = startNext([res.out EXCEPT !.timers = @ - 1], arg)]
    /\ UNCHANGED <<queue, seen, finished, dataset, store, clock, saveErrorSamples,
                   runState, last, hist, arg>>

NextProcess == processWithConcurrency \/ FetchRetried \/ processOne \/ ProcessOneSettled \/ TimerFires

SpecProcess == InitProcess /\ [][NextProcess]_vars

\* every fetch ends, every callback that is due runs and every timer fires
SpecProcessFair ==
    /\ SpecProcess
    /\ WF_vars(processWithConcurrency)
    /\ WF_vars(FetchRetried \/ processOne)
    /\ WF_vars(ProcessOneSettled)
    /\ WF_vars(TimerFires)

(***************************************************************************)
(* Properties.                                                             *)
(***************************************************************************)

\* C1: a page whose status is >= 400, or whose content matches an error
\* signature, is not routed: requestHandler emits no record and enqueues no
\* request for it, whether the request is labelled LISTING, JOB_DETAIL or
\* neither.
C1_ErrorPageStops ==
    (/\ res.pc = "done"
     /\ \/ arg.statusCode >= 400
        \/ \E k \in 1..Len(ERROR_PAGE_PATTERNS) : PatternTest(k, ErrorScanText(arg.page)))
    => (res.out.effect.emit = <<>> /\ res.out.effect.enq = <<>>)

\* a listing answered with 404: its handler would have enqueued the job and
\* the next page, requestHandler enqueues nothing
C1_Witness ==
    /\ res.pc = "done"
    /\ arg.statusCode = 404
    /\ arg.request.label = LISTING
    /\ arg.page = ListingPage
    /\ Len(listingHandler(arg.request.url, arg.page).enq) = 2
    /\ res.out.effect = [enq |-> <<>>, emit |-> <<>>]

\* C2, as stated: every page stopped as an error (by status, by content, or
\* by a transport failure after the retries) leaves exactly one evidence file,
\* whatever the run input and whether or not the write succeeds.
C2_AlwaysOneArtifact ==
    (\/ (last.kind = "handled" /\ last.class.tier # "none")
     \/ last.kind = "failed")
    => Len(last.files) = 1

\* C2, amended: when saveErrorSamples is on and the write succeeds, a page
\* stopped as an error leaves exactly one evidence file, named
\* <subdomain>-<error type in lower case>-<timestamp>.html, whose header
\* carries the URL and the error type, and the file is in the evidence
\* directory; when saveErrorSamples is off or the write fails, no file is left.
C2_Evidence ==
    LET stopped == \/ (last.kind = "handled" /\ last.class.tier # "none")
                   \/ last.kind = "failed"
        kind == IF last.kind = "handled" THEN last.class.type
                ELSE CASE last.errorMessage = "request timeout" -> "TIMEOUT"
                       [] last.errorMessage = "connect ECONNREFUSED 10.0.0.7:443"
                            -> "CONNECTION_REFUSED"
        prefix == "acme-" \o Lower(kind) \o "-"
    IN  stopped =>
            IF saveErrorSamples /\ ~last.writeFailed
            THEN /\ Len(last.files) = 1
                 /\ SubSeq(last.files[1].name, 1, Len(prefix)) = prefix
                 /\ SubSeq(last.files[1].name, Len(last.files[1].name) - 4,
                           Len(last.files[1].name)) = ".html"
                 /\ last.files[1].content.url = last.request.url
                 /\ last.files[1].content.errorType = kind
                 /\ last.files[1].name \in DOMAIN store
                 /\ store[last.files[1].name] = last.files[1].content
            ELSE last.files = <<>>

\* a job page answered with 404 while saveErrorSamples is on: one file, named
\* after the tenant and the error type
C2_Witness ==
    /\ last.kind = "handled"
    /\ last.statusCode = 404
    /\ saveErrorSamples
    /\ Len(last.files) = 1
    /\ last.files[1].name = "acme-page_not_found-0.html"
    /\ last.files[1].content.httpStatus = "404"
    /\ "acme-page_not_found-0.html" \in DOMAIN store

\* C3: for every status s >= 400 the status tier gives exactly one error kind,
\* fixed by s alone: 401 UNAUTHORIZED, 403 ACCESS_DENIED, 404 PAGE_NOT_FOUND,
\* 429 RATE_LIMITED, 499 PROXY_RATE_LIMITED, s >= 500 SERVER_ERROR, and every
\* other s in 400..498 HTTP_ERROR, whatever the page holds.
C3_StatusTier ==
    (res.pc = "done" /\ arg.statusCode >= 400) =>
        LET s == arg.statusCode
            kind == CASE s = 401 -> "UNAUTHORIZED"
                      [] s = 403 -> "ACCESS_DENIED"
                      [] s = 404 -> "PAGE_NOT_FOUND"
                      [] s = 429 -> "RATE_LIMITED"
                      [] s = 499 -> "PROXY_RATE_LIMITED"
                      [] s >= 500 -> "SERVER_ERROR"
                      [] s \in (400..498) \ {401, 403, 404, 429} -> "HTTP_ERROR"
        IN  res.out = [tier |-> "status", type |-> kind]

\* a 499 answer whose body reads like a sign-in page is PROXY_RATE_LIMITED
C3_Witness ==
    /\ res.pc = "done"
    /\ arg.statusCode = 499
    /\ arg.page = SignInPage
    /\ res.out.type = "PROXY_RATE_LIMITED"

\* C4: the content tier is consulted only when status < 400; it gives the type
\* of the first table entry, in declaration order, whose pattern matches the
\* lower-cased title followed by the first 5000 characters of the body text,
\* and null when no entry matches.
C4_ContentTier ==
    res.pc = "done" =>
        LET text == Lower(Trim(arg.page.title)) \o " "
                    \o Lower(SubSeq(arg.page.bodyText, 1, Min(5000, Len(arg.page.bodyText))))
            hits == {k \in 1..Len(ERROR_PAGE_PATTERNS) : PatternTest(k, text)}
            first == CHOOSE k \in hits : \A j \in hits : k <= j
        IN  /\ (res.out.tier = "content") => arg.statusCode < 400
            /\ (arg.statusCode < 400 /\ hits = {}) => res.out = [tier |-> "none", type |-> NULL]
            /\ (arg.statusCode < 400 /\ hits # {}) =>
                   res.out = [tier |-> "content", type |-> ERROR_PAGE_PATTERNS[first].type]

\* "forbidden" comes first in the text, "page not found" first in the table
C4_Witness ==
    /\ res.pc = "done"
    /\ arg.statusCode = 200
    /\ arg.page = [title |-> "Oops", bodyText |-> "Forbidden: Page Not Found"]
    /\ res.out = [tier |-> "content", type |-> "PAGE_NOT_FOUND"]

\* C5: a page answered with status 200 whose body reads "Please sign in to
\* continue", and matches no other signature, is classified AUTH_REQUIRED and
\* is not routed to a handler.
C5_SignInWall ==
    (last.kind = "handled" /\ last.statusCode = 200 /\ last.page = SignInDetailPage)
    => (/\ last.class.type = "AUTH_REQUIRED"
        /\ last.emit = <<>>
        /\ last.enq = <<>>)

\* C6: an error page or a transport failure never aborts the run: no callback
\* raises, every queued URL leaves the queue unless the page budget is spent
\* first, the run ends, and it ends only with the queue drained or the budget
\* spent.
C6_RunContinues ==
    /\ [](last.kind # "raised")
    /\ [](last.kind = "failed" => ~last.raised)
    /\ [](runState = "finished" => (queue = {} \/ finished >= MaxRequestsPerCrawl))
    /\ \A url \in StartUrls \cup {Host \o "/careers/SearchJobs?jobOffset=10"} :
           (url \in {r.url : r \in queue})
               ~> (url \notin {r.url : r \in queue} \/ finished >= MaxRequestsPerCrawl)
    /\ <>(runState = "finished")

\* one start URL failed for good, the other was then fetched and routed, and
\* the run ended with the budget spent
C6_Witness ==
    /\ runState = "finished"
    /\ finished = MaxRequestsPerCrawl
    /\ last.kind = "handled"
    /\ last.class.tier = "none"
    /\ \E url \in DOMAIN hist : url # last.request.url /\ hist[url].failed = 1

\* C7: evidence of a transport failure is written only for a request whose
\* three retries are used up, at most once per request, and never for a
\* request that is still queued for another attempt or that was handled.
C7_TransportEvidence ==
    LET Transport == {"TIMEOUT", "CONNECTION_REFUSED", "DNS_ERROR", "SSL_ERROR",
                      "REQUEST_FAILED"}
        TransportCount(url) ==
            Cardinality({k \in 1..Len(hist[url].evidence) : hist[url].evidence[k] \in Transport})
    IN  /\ last.kind = "failed" => last.request.retryCount = 3
        /\ \A url \in DOMAIN hist :
            /\ hist[url].failed <= 1
            /\ TransportCount(url) <= hist[url].failed
            /\ (url \in {r.url : r \in queue} \/ hist[url].returns > 0)
                    => TransportCount(url) = 0

\* a request failed on its fourth attempt and its TIMEOUT evidence was written
C7_Witness ==
    /\ last.kind = "failed"
    /\ last.request.retryCount = 3
    /\ last.errorMessage = "request timeout"
    /\ Len(last.files) = 1
    /\ last.files[1].content.errorType = "TIMEOUT"
    /\ hist[last.request.url].evidence = <<"TIMEOUT">>

\* C8, as stated: for each of title, location, employment type, duration,
\* department, entity and reference number, a non-empty hint on the request is
\* the value of that field in the emitted record.
C8_HintsWin ==
    res.pc = "done" =>
        LET record == res.out.emit[1]
            hints == arg.userData.subtitles
            Wins(key, value) ==
                (key \in DOMAIN hints /\ hints[key] # "") => value = hints[key]
        IN  /\ (arg.userData.title \notin {NULL, ""}) => record.title = arg.userData.title
            /\ Wins("location", record.location)
            /\ Wins("workingTime", record.employmentType)
            /\ Wins("contractType", record.duration)
            /\ Wins("department", record.department)
            /\ Wins("legalEntity", record.entity)
            /\ Wins("ref", record.refNumber)

\* C8, amended: a non-empty hint for title, location, employment type,
\* duration, department or entity is the value of that field in the emitted
\* record.  The reference-number hint is lower-cased and stripped of its
\* "ref #" marks first: what is left, if anything, is emitted, unless it equals
\* the job id of the URL, and then the record's reference number is null.
C8_HintsWinNormalisedRef ==
    res.pc = "done" =>
        LET record == res.out.emit[1]
            hints == arg.userData.subtitles
            Wins(key, value) ==
                (key \in DOMAIN hints /\ hints[key] # "") => value = hints[key]
            jobId == CASE arg.url = DetailUrl -> "101"
                       [] arg.url = NurseUrl -> "102"
                       [] arg.url = SlugOnlyUrl -> NULL
            ref == CASE hints["ref"] = "Ref #2201" -> "2201"
                     [] hints["ref"] = "101" -> "101"
                     [] hints["ref"] = "REQ-7" -> "req-7"
                     [] hints["ref"] = "ref #" -> ""
        IN  /\ (arg.userData.title \notin {NULL, ""}) => record.title = arg.userData.title
            /\ Wins("location", record.location)
            /\ Wins("workingTime", record.employmentType)
            /\ Wins("contractType", record.duration)
            /\ Wins("department", record.department)
            /\ Wins("legalEntity", record.entity)
            /\ ("ref" \in DOMAIN hints /\ ref # "")
                   => record.refNumber = (IF ref = jobId THEN NULL ELSE ref)

\* every hint set on a request for a page that states other values: the
\* record carries the hints, and the reference number without its mark
C8_Witness ==
    /\ res.pc = "done"
    /\ arg.page = RichDetailPage
    /\ arg.userData = CardUserData("Staff Nurse", FullHints)
    /\ getJobTitle(arg.url, arg.page) = "Nurse II"
    /\ res.out.emit[1].title = "Staff Nurse"
    /\ res.out.emit[1].location = "Los Angeles"
    /\ res.out.emit[1].entity = "Acme Health"
    /\ res.out.emit[1].refNumber = "2201"

\* C9: the title of an emitted record is never one of the company names
\* bloomberg, ucla health, unifi, avature (compared without case), whichever
\* strategy produced it.
C9_TitleNotCompany ==
    res.pc = "done" =>
        \/ res.out.emit[1].title = NULL
        \/ Lower(Trim(res.out.emit[1].title))
               \notin {"bloomberg", "ucla health", "unifi", "avature"}

\* C10: listingHandler enqueues one JOB_DETAIL request per distinct resolved
\* job URL of the page's cards, in the order of first appearance, each with
\* the title and subtitles of the first card that links to that URL.
C10_OneTaskPerJob ==
    res.pc = "done" =>
        LET cards == arg.page.cards
            Resolved(href) ==
                IF SubSeq(href, 1, 4) = "http" THEN href
                ELSE "https://acme.avature.net"
                     \o (IF SubSeq(href, 1, 1) = "/" THEN "" ELSE "/") \o href
            linked == {i \in 1..Len(cards) : cards[i].href \notin {NULL, ""}}
            firsts == {i \in linked :
                          \A j \in linked : j < i => Resolved(cards[j].href) # Resolved(cards[i].href)}
            tasks == SelectSeq(res.out.enq, LAMBDA r : r.label = JOB_DETAIL)
        IN  /\ Len(tasks) = Cardinality({Resolved(cards[i].href) : i \in linked})
            /\ \A k \in 1..Len(tasks) :
                   \E i \in firsts :
                       /\ Cardinality({j \in firsts : j <= i}) = k
                       /\ tasks[k].url = Resolved(cards[i].href)
                       /\ tasks[k].userData.title = Trim(cards[i].title)
                       /\ tasks[k].userData.subtitles = CardSubtitles(cards[i].subs, 1, EmptyObject)

\* three different jobs and a second card for the first of them: three
\* JOB_DETAIL requests, the first with the hints of the first card
C10_Witness ==
    /\ res.pc = "done"
    /\ Len(arg.page.cards) = 4
    /\ arg.page.cards[1] = ListingPage.cards[1]
    /\ arg.page.cards[3] = ListingPage.cards[2]
    /\ Cardinality({arg.page.cards[i].href : i \in 1..4}) = 4
    /\ Len(SelectSeq(res.out.enq, LAMBDA r : r.label = JOB_DETAIL)) = 3
    /\ res.out.enq[1].userData.title = "Bloomberg"
    /\ res.out.enq[1].userData.subtitles = [location |-> "Los Angeles", ref |-> "Ref #2201"]

\* C11: a listing without a job link (status below 400, no error signature in
\* its text) is routed to listingHandler, which returns without enqueuing a
\* JOB_DETAIL request; the page is not classified as an error and no evidence
\* file is written for it.
C11_EmptyListing ==
    (/\ res.pc = "done"
     /\ arg.request.label = LISTING
     /\ arg.statusCode < 400
     /\ \A i \in 1..Len(arg.page.cards) : arg.page.cards[i].href \in {NULL, ""}
     /\ \A k \in 1..Len(ERROR_PAGE_PATTERNS) : ~PatternTest(k, ErrorScanText(arg.page)))
    => (/\ res.out.class.tier = "none"
        /\ res.out.saved = [files |-> <<>>, threw |-> FALSE]
        /\ res.out.effect.emit = <<>>
        /\ \A k \in 1..Len(res.out.effect.enq) : res.out.effect.enq[k].label # JOB_DETAIL)

\* a listing whose only card has no link, with saving on: the next page is
\* enqueued, no job is, nothing is written
C11_Witness ==
    /\ res.pc = "done"
    /\ arg.page = UnlinkedListingPage
    /\ arg.statusCode = 200
    /\ arg.request.label = LISTING
    /\ arg.save
    /\ Len(res.out.effect.enq) = 1
    /\ res.out.effect.enq[1].label = LISTING
    /\ res.out.saved.files = <<>>

\* C12: when a JOB_DETAIL request reaches jobDetailHandler (its page is not
\* an error page), the handler pushes exactly one record, for the request's
\* URL, to the dataset and enqueues nothing: the request queue only loses the
\* request that was handled.
C12_OneRecordNoTask ==
    [][(/\ finished' = finished + 1
        /\ last'.kind = "handled"
        /\ last'.request.label = JOB_DETAIL
        /\ last'.class.tier = "none")
       => (/\ Len(dataset') = Len(dataset) + 1
           /\ SubSeq(dataset', 1, Len(dataset)) = dataset
           /\ dataset'[Len(dataset')].url = last'.request.url
           /\ last'.enq = <<>>
           /\ queue' = queue \ {last'.request}
           /\ seen' = seen)]_vars

\* the job page was handled while the listing was still queued: one record,
\* the queue still holds the listing only
C12_Witness ==
    /\ last.kind = "handled"
    /\ last.request.label = JOB_DETAIL
    /\ last.class.tier = "none"
    /\ Len(dataset) = 1
    /\ dataset[1].url = DetailUrl
    /\ last.enq = <<>>
    /\ queue = {StartRequest(StartListing)}

\* C13: no emitted record has a refNumber equal to its jobId: a reference
\* number that repeats the job id, whether it comes from the card's hint or
\* from a labelled field of the page, is emitted as null.
C13_RefNumberNotJobId ==
    res.pc = "done" =>
        LET record == res.out.emit[1]
            hints == arg.userData.subtitles
        IN  /\ record.refNumber = NULL \/ record.refNumber # record.jobId
            /\ (arg.url = DetailUrl /\ "ref" \in DOMAIN hints /\ hints["ref"] = "101")
                   => record.refNumber = NULL
            /\ (/\ arg.url = NurseUrl /\ arg.page = DuplicateRefPage
                /\ ("ref" \notin DOMAIN hints \/ hints["ref"] = "ref #"))
                   => record.refNumber = NULL

\* the page's "Job #" field reads 102, the id in the URL: refNumber is null
C13_Witness ==
    /\ res.pc = "done"
    /\ arg.url = NurseUrl
    /\ arg.page = DuplicateRefPage
    /\ arg.userData = NoUserData
    /\ getFieldByLabels(arg.page.doc, <<"job #">>) = "102"
    /\ res.out.emit[1].jobId = "102"
    /\ res.out.emit[1].refNumber = NULL

\* C14: every emitted record has a url, a jobId, a subdomain and a scrapedAt
\* that are not null, whatever job link the request was made from.
C14_IdentifiersPresent ==
    res.pc = "done" =>
        /\ res.out.emit[1].url # NULL
        /\ res.out.emit[1].jobId # NULL
        /\ res.out.emit[1].subdomain # NULL
        /\ res.out.emit[1].scrapedAt \in Nat


\* C15: a date written as M/D/YYYY, as D-Mon-YYYY (three-letter month in any
\* letter case) or as 'Month D, YYYY' is converted to the zero-padded
\* YYYY-MM-DD text that parseDate returns for the ISO form of the same date.
C15_SameIsoDate ==
    (res.pc = "done" /\ arg.date # NULL)
    => (res.out.date = arg.date /\ res.out.date = parseDate(arg.date))

\* "02-Feb-2026" becomes "2026-02-02"
C15_Witness ==
    /\ res.pc = "done"
    /\ arg.text = "02-Feb-2026"
    /\ arg.date = "2026-02-02"
    /\ res.out.date = "2026-02-02"


\* C16: parseDate returns null for a null or empty text, returns a text that
\* starts with YYYY-MM-DD unchanged, returns a text that none of its three
\* expressions matches unchanged, and is idempotent: applied to its own result
\* it returns that result.
C16_TotalAndIdempotent ==
    res.pc = "done"
    => /\ (arg.text \in {NULL, ""} => res.out.date = NULL)
       /\ (arg.text \notin {NULL, ""} /\ IsoPrefixTest(arg.text) => res.out.date = arg.text)
       /\ (/\ arg.text \notin {NULL, ""}
           /\ MdyMatch(arg.text) = 0 /\ DMyMatch(arg.text) = 0 /\ FullMatch(arg.text) = 0
           => res.out.date = arg.text)
       /\ res.out.again = res.out.date

\* a date inside a longer text is converted, and the conversion of the result
\* changes nothing
C16_Witness ==
    /\ res.pc = "done"
    /\ arg.text = "Posted 10/28/2025 by HR"
    /\ res.out.date = "2025-10-28"
    /\ res.out.again = "2025-10-28"


\* the number a text of digits denotes
RECURSIVE NatOf(_)
NatOf(s) ==
    IF s = "" THEN 0
    ELSE 10 * NatOf(SubSeq(s, 1, Len(s) - 1))
         + (CHOOSE n \in 0..9 : Char(Digits, n + 1) = Char(s, Len(s)))

\* the number an amount with at most two decimals denotes, in hundredths
HundredthsAt(s, dot) ==
    IF dot = 0 THEN 100 * NatOf(s)
    ELSE 100 * NatOf(SubSeq(s, 1, dot - 1)) + NatOf(Substring0(Rest(s, dot + 1) \o "00", 2))
Hundredths(s) == HundredthsAt(s, IndexOf(s, "."))

\* C17: for a salary text that holds a range, min is numerically at most max,
\* whatever the order of the two amounts in the text; for a text that holds a
\* single amount, min equals max.
C17_MinAtMostMax ==
    res.pc = "done"
    => /\ (arg.kind = "range" => Hundredths(res.out.min) <= Hundredths(res.out.max))
       /\ (arg.kind = "single" => res.out.min = res.out.max)

\* C18: for a salary text without any digit, min and max are null; for every
\* salary text, raw is the text itself.
C18_NoDigitNoAmount ==
    res.pc = "done"
    => /\ (arg.kind = "none" => res.out.min = NULL /\ res.out.max = NULL)
       /\ res.out.raw = arg.text


\* new URL(url).pathname: what follows the host, up to the query or fragment
UrlPathFrom(url, start) == SubSeq(url, start, FirstOf(url, start, {"?", "#"}) - 1)
UrlPath(url) == UrlPathFrom(url, Len(getBaseUrl(url)) + 1)

\* C19: getRouteLabel returns JOB_DETAIL when the path of the URL holds
\* /careers/JobDetail/<segment>/<digits>, otherwise LISTING when the path holds
\* /careers/SearchJobs, otherwise null; the path alone decides, whatever the
\* query string and the fragment hold.
C19_PathDecides ==
    res.pc = "done"
    => res.out = (IF JobDetailPatternTest(UrlPath(arg.url)) THEN JOB_DETAIL
                  ELSE IF ListingPatternTest(UrlPath(arg.url)) THEN LISTING
                  ELSE NULL)


\* C20 as stated: a start URL that matches neither route pattern gets no label
\* and is processed by defaultHandler.
C20_UnmatchedToDefault ==
    (res.pc = "done" /\ getRouteLabel(arg.url) = NULL)
    => (res.out.request.label = NULL /\ res.out.effect = defaultHandler(arg.url, arg.page))

\* C20, amended: every start URL gets a label; one that matches neither route
\* pattern gets LISTING and is processed by listingHandler; and every request
\* the handler enqueues carries the label LISTING or JOB_DETAIL, so that no
\* request without a label follows from a start URL.
C20_UnmatchedToListing ==
    res.pc = "done"
    => /\ res.out.request.label \in {LISTING, JOB_DETAIL}
       /\ (getRouteLabel(arg.url) = NULL
           => /\ res.out.request.label = LISTING
              /\ res.out.effect = listingHandler(arg.url, arg.page))
       /\ \A k \in 1..Len(res.out.effect.enq) :
              res.out.effect.enq[k].label \in {LISTING, JOB_DETAIL}

\* the careers home page as a start URL: labelled LISTING, and its jobs are
\* enqueued by listingHandler, with the hints defaultHandler would not attach
C20_Witness ==
    /\ res.pc = "done"
    /\ arg.url = Host \o "/careers"
    /\ arg.page = ListingPage
    /\ getRouteLabel(arg.url) = NULL
    /\ res.out.request.label = LISTING
    /\ res.out.effect = listingHandler(arg.url, arg.page)
    /\ res.out.effect # defaultHandler(arg.url, arg.page)


\* records without their time stamp
Unstamped(records) == [k \in 1..Len(records) |-> [records[k] EXCEPT !.scrapedAt = 0]]

\* C21: whatever the other invocations do and whenever they do it, an
\* invocation that has completed has handed over the requests and the record
\* (scrapedAt aside) that its handler produces for its request and page alone.
C21_NoInterference ==
    \A i \in 1..MaxInFlight :
        res[i].pc = "done"
        => /\ res[i].enq = router(arg[i].request, arg[i].page, 0).enq
           /\ Unstamped(res[i].emit) = Unstamped(router(arg[i].request, arg[i].page, 0).emit)

\* both pages of the listing processed at the same time: each has enqueued
\* the job they both link to
C21_Witness ==
    /\ arg[1].page = ListingPage /\ arg[2].page = SecondListingPage
    /\ res[1].pc = "done" /\ res[2].pc = "done"
    /\ \E k \in 1..Len(res[1].enq) : res[1].enq[k].url = DetailUrl
    /\ \E k \in 1..Len(res[2].enq) : res[2].enq[k].url = DetailUrl
    /\ Cardinality({r \in queue : r.url = DetailUrl}) = 1


\* the number of evidence files recorded so far for the URLs in urls
RECURSIVE RecordedFor(_)
RecordedFor(urls) ==
    IF urls = {} THEN 0
    ELSE LET url == CHOOSE u \in urls : TRUE
         IN  Len(hist[url].evidence) + RecordedFor(urls \ {url})

\* C22: the evidence directory is append-only: it holds one file for each
\* piece of evidence recorded, also when two pages of the same tenant with the
\* same error kind are recorded within the same timestamp.
C22_AppendOnly == Cardinality(DOMAIN store) = RecordedFor(DOMAIN hist)


\* C23: when neither pass over the sections fills description, qualifications
\* or duties, the record's description is the text of the main content region;
\* it is null only if that region holds no text.
C23_DescriptionFallsBack ==
    (/\ res.pc = "done"
     /\ DescriptionSections(arg.page.doc) = NoSections)
    => res.out.emit[1].description =
           (IF Trim(arg.page.doc.contentText) # "" THEN Trim(arg.page.doc.contentText)
            ELSE NULL)


\* C24: from one listing page, listingHandler enqueues one LISTING request for
\* each distinct resolved URL of the pagination links that are not marked as
\* previous or back by their text and whose href is neither empty nor "#", in
\* the order of first appearance, and no other LISTING request.
C24_PaginationOnce ==
    res.pc = "done" =>
        LET as == arg.page.anchors
            Resolved(href) ==
                IF StartsWith(href, "http") THEN href
                ELSE "https://acme.avature.net"
                     \o (IF StartsWith(href, "/") THEN "" ELSE "/") \o href
            Marked(text) ==
                \E word \in {"prev", "back", "<<"} : Includes(Lower(text), word)
            Paging(href) ==
                \E word \in {"jobOffset", "SearchJobs", "pageNumber"} : Includes(href, word)
            eligible == {i \in 1..Len(as) :
                            /\ as[i].href \notin {NULL, "", "#"}
                            /\ Paging(as[i].href)
                            /\ ~Marked(as[i].text)}
            firsts == {i \in eligible :
                          \A j \in eligible : j < i => Resolved(as[j].href) # Resolved(as[i].href)}
            tasks == SelectSeq(res.out.enq, LAMBDA r : r.label = LISTING)
        IN  /\ Len(tasks) = Cardinality(firsts)
            /\ \A k \in 1..Len(tasks) :
                   \E i \in firsts :
                       /\ Cardinality({j \in firsts : j <= i}) = k
                       /\ tasks[k].url = Resolved(as[i].href)
            /\ \A k, m \in 1..Len(tasks) : tasks[k].url = tasks[m].url => k = m

\* a next link, the same page by its number and absolute URL, and a previous
\* link: one LISTING request
C24_Witness ==
    /\ res.pc = "done"
    /\ Len(arg.page.anchors) = 3
    /\ arg.page.anchors[1].text = "Next >>"
    /\ arg.page.anchors[2].text = " 2 "
    /\ arg.page.anchors[3].text = " PREVIOUS "
    /\ SelectSeq(res.out.enq, LAMBDA r : r.label = LISTING)
           = <<Request(StartListing \o "?jobOffset=10", LISTING, NoUserData)>>


\* C25: no extracted value reaches its cap: a title that getJobTitle returns is
\* shorter than 200 characters, and a value that getFieldByLabels or
\* getFieldFromText returns is shorter than 500 characters.
C25_ValuesCapped ==
    res.pc = "done"
    => /\ \A title \in {getJobTitle(arg.url, arg.page)} : title = NULL \/ Len(title) < 200
       /\ \A field \in {"location", "employmentType", "duration", "department", "entity"} :
              \/ res.out.emit[1][field] = NULL
              \/ Len(res.out.emit[1][field]) < 500


\* C26: every request that listingHandler or defaultHandler enqueues carries
\* the label that getRouteLabel gives its URL.
C26_LabelsAgree ==
    res.pc = "done"
    => \A k \in 1..Len(res.out.enq) : getRouteLabel(res.out.enq[k].url) = res.out.enq[k].label


\* C27: a response that requestHandler classifies as an error, by status (429
\* and 499 included) or by content, ends its request: the handler returns,
\* the crawler takes the request off the queue and counts it, and the URL is
\* never handled a second time, never queued again, and no attempt for it is
\* ever counted as raised by the handler.
C27_ErrorHandledOnce ==
    /\ [][(last'.kind = "handled" /\ last' # last /\ last'.class.tier # "none")
          => (/\ last'.request \in queue
              /\ queue' = queue \ {last'.request}
              /\ finished' = finished + 1
              /\ hist'[last'.request.url].returns = 1
              /\ last'.enq = <<>> /\ last'.emit = <<>>)]_vars
    /\ [](\A url \in DOMAIN hist :
            /\ hist[url].raises = 0
            /\ hist[url].returns <= 1
            /\ hist[url].returns = 1 => url \notin {r.url : r \in queue})

\* the listing answered 429 after one failed attempt: the request is gone
\* from the queue, counted, and the other start URL is still queued
C27_Witness ==
    /\ last.kind = "handled"
    /\ last.statusCode = 429
    /\ last.class.type = "RATE_LIMITED"
    /\ last.request.url = StartListing
    /\ last.request.retryCount = 1
    /\ finished = 1
    /\ hist[StartListing].returns = 1
    /\ queue = {StartRequest(DetailUrl)}


\* the places method 0..4 looks at that show labelText on the page
ShownBy(doc, labelText) ==
    {m \in 0..4 :
        <<doc.fields, doc.strongs, doc.dts, doc.rows, doc.blocks>>[m + 1]
            = <<<<FieldElement(labelText)>>, <<StrongElement(labelText)>>,
                <<DtElement(labelText)>>, <<RowElement(labelText)>>,
                <<BlockElement(labelText)>>>>[m + 1]}

\* C28: getFieldByLabels returns the value of the first label of the list
\* that the page shows by any method, taken by the first of the five methods
\* (field block, strong with inline text, dt/dd, th/td, adjacent sibling)
\* that finds it, whatever an earlier method would find for a later label;
\* it returns null exactly when the page shows none of the labels.
C28_LabelThenMethod ==
    res.pc = "done"
    => LET shown == {i \in 1..Len(arg.labels) : ShownBy(arg.doc, arg.labels[i]) # {}}
       IN  IF shown = {} THEN res.out = NULL
           ELSE res.out = TownShown(arg.labels[MinOf(shown)],
                                    MinOf(ShownBy(arg.doc, arg.labels[MinOf(shown)])))

\* the first label is found by the last method only, the second label by the
\* first method: the first label's value is returned
C28_Witness ==
    /\ res.pc = "done"
    /\ arg.labels = <<"Location", "City">>
    /\ arg.doc.fields = <<FieldElement("City")>>
    /\ arg.doc.blocks = <<BlockElement("Location")>>
    /\ arg.doc.strongs = <<>> /\ arg.doc.dts = <<>> /\ arg.doc.rows = <<>>
    /\ res.out = "Boston 4"


\* C29: at every moment of processWithConcurrency, whatever the order in
\* which fetches end and timers fire, at most MAX_CONCURRENCY checks are
\* running: running counts exactly the checks that were started and have not
\* run their .finally callback, and it never exceeds MAX_CONCURRENCY.
C29_AtMostFiveRunning ==
    res.pc = "called"
    => /\ res.out.running <= MAX_CONCURRENCY
       /\ res.out.running
            = Cardinality({i \in DOMAIN res.out.checks :
                              res.out.checks[i].phase \in {"fetching", "stored"}})
       /\ Cardinality({i \in DOMAIN res.out.checks : res.out.checks[i].phase = "fetching"})
            <= MAX_CONCURRENCY

\* six subdomains: the first check is over, its timer has fired and started
\* the sixth check, and five checks are running again
C29_Witness ==
    /\ res.pc = "called"
    /\ Len(arg) = 6
    /\ res.out.nextIndex = 6
    /\ res.out.checks[0].phase = "done"
    /\ res.out.timers = 0
    /\ res.out.running = MAX_CONCURRENCY
    /\ \A i \in 1..5 : res.out.checks[i].phase = "fetching"

\* C30: when every fetch ends, processWithConcurrency resolves for every
\* list; it is resolved only when checkSubdomain has been called exactly once
\* for every index and results[i] holds the result for subdomains[i]; no
\* check is ever started twice; for the empty list it is resolved when the
\* call returns.
C30_ResolvesWhenAllChecked ==
    /\ <>(res.pc = "called" /\ res.out.resolved)
    /\ [](res.pc = "called"
            => /\ \A i \in DOMAIN res.out.checks : res.out.checks[i].calls <= 1
               /\ res.out.resolved
                    => /\ DOMAIN res.out.results = 0..(Len(arg) - 1)
                       /\ res.out.completed = Len(arg)
                       /\ res.out.running = 0
                       /\ \A i \in 0..(Len(arg) - 1) :
                            /\ res.out.checks[i].calls = 1
                            /\ res.out.checks[i].phase = "done"
                            /\ res.out.results[i].subdomain = arg[i + 1]
               /\ arg = <<>> => res.out.resolved)

\* six subdomains, all checked: the second was rate limited three times, the
\* sixth timed out three times; the promise is resolved
C30_Witness ==
    /\ res.pc = "called"
    /\ Len(arg) = 6
    /\ res.out.resolved
    /\ res.out.results[0].status = "working"
    /\ res.out.results[1] = [subdomain |-> SubdomainName(2), status |-> "blocked"]
    /\ res.out.results[5] = [subdomain |-> SubdomainName(6), status |-> "error"]

====
